---------------------------- MODULE Spec2Model ----------------------------
(***************************************************************************)
(* A model of the gopherseo crawler (internal/crawler/crawler.go).          *)
(*                                                                         *)
(* Strings are sequences of tokens.  A token is one character, except the  *)
(* scheme prefixes "http://", "https://" and "mailto:" which are kept as    *)
(* one token each.  " " is a blank and "^" stands for a control character   *)
(* (net/url refuses to parse a URL that holds one).                        *)
(***************************************************************************)
EXTENDS Integers, Sequences, FiniteSets, TLC

----------------------------------------------------------------------------
(* Strings                                                                 *)

SchemeTokens == {"http://", "https://", "mailto:"}

\* tokens that hold a '/' character
HasSlash(tok) == tok \in {"/", "http://", "https://"}

RECURSIVE TrimLeft(_, _)
TrimLeft(s, tok) ==
    IF s # <<>> /\ Head(s) = tok THEN TrimLeft(Tail(s), tok) ELSE s

RECURSIVE TrimRight(_, _)
TrimRight(s, tok) ==
    IF s # <<>> /\ s[Len(s)] = tok
    THEN TrimRight(SubSeq(s, 1, Len(s) - 1), tok)
    ELSE s

\* strings.TrimPrefix(s, "/")
TrimLeft1(s) == IF s # <<>> /\ Head(s) = "/" THEN Tail(s) ELSE s

\* strings.TrimSpace
TrimSpace(s) == TrimRight(TrimLeft(s, " "), " ")

\* index of the first occurrence of tok in s, 0 when there is none
IndexOf(s, tok) ==
    IF \E i \in 1..Len(s) : s[i] = tok
    THEN CHOOSE i \in 1..Len(s) : s[i] = tok /\ \A j \in 1..(i - 1) : s[j] # tok
    ELSE 0

\* index of the last occurrence of tok in s, 0 when there is none
LastIndexOf(s, tok) ==
    IF \E i \in 1..Len(s) : s[i] = tok
    THEN CHOOSE i \in 1..Len(s) : s[i] = tok /\ \A j \in (i + 1)..Len(s) : s[j] # tok
    ELSE 0

Before(s, i) == SubSeq(s, 1, i - 1)
After(s, i) == SubSeq(s, i + 1, Len(s))

\* strings.ToLower on the host letters of the model
Lower(tok) == IF tok = "X" THEN "x" ELSE IF tok = "Y" THEN "y" ELSE tok

\* strings.EqualFold
EqualFold(s, t) ==
    /\ Len(s) = Len(t)
    /\ \A i \in 1..Len(s) : Lower(s[i]) = Lower(t[i])

----------------------------------------------------------------------------
(* net/url: Parse and URL.String on the token strings                      *)

NoURL == [ok |-> FALSE, scheme |-> "", opaque |-> <<>>, host |-> <<>>,
          path |-> <<>>, query |-> <<>>, frag |-> <<>>]

SchemeName(tok) ==
    IF tok = "http://" THEN "http"
    ELSE IF tok = "https://" THEN "https"
    ELSE IF tok = "mailto:" THEN "mailto"
    ELSE ""

\* strings.Cut at position i of s (0: the separator is not in s)
CutAt(s, i) == IF i = 0 THEN <<s, <<>>>> ELSE <<Before(s, i), After(s, i)>>

\* strings.Cut
Cut(s, tok) == CutAt(s, IndexOf(s, tok))

\* the scheme token a string starts with, "" when it starts with none
SchemeOf(s) == IF s # <<>> /\ Head(s) \in SchemeTokens THEN Head(s) ELSE ""

\* the host of an authority and what follows it
HostPart(schemeTok, noQuery, s) ==
    IF schemeTok \notin {"http://", "https://"} THEN <<>>
    ELSE IF s = 0 THEN noQuery ELSE Before(noQuery, s)

PathPart(schemeTok, noQuery, s) ==
    IF schemeTok = "mailto:" THEN <<>>
    ELSE IF schemeTok = "" THEN noQuery
    ELSE IF s = 0 THEN <<>> ELSE SubSeq(noQuery, s, Len(noQuery))

MakeURL(raw, frag, schemeTok, query, noQuery, host) ==
    IF \E i \in 1..Len(raw) : raw[i] = "^" THEN NoURL
    ELSE IF \E i \in 1..Len(host) : host[i] = " " THEN NoURL
    ELSE [ok |-> TRUE, scheme |-> SchemeName(schemeTok),
          opaque |-> IF schemeTok = "mailto:" THEN noQuery ELSE <<>>,
          host |-> host,
          path |-> PathPart(schemeTok, noQuery, IndexOf(noQuery, "/")),
          query |-> query, frag |-> frag]

ParseAuthority(raw, frag, schemeTok, c) ==
    MakeURL(raw, frag, schemeTok, c[2], c[1],
            HostPart(schemeTok, c[1], IndexOf(c[1], "/")))

ParseScheme(raw, frag, schemeTok, noFrag) ==
    ParseAuthority(raw, frag, schemeTok,
                   Cut(IF schemeTok = "" THEN noFrag ELSE Tail(noFrag), "?"))

ParseNoFrag(raw, c) == ParseScheme(raw, c[2], SchemeOf(c[1]), c[1])

\* url.Parse: cut the fragment at the first '#', the scheme, the query at
\* the first '?', then the authority up to the next '/'; an error for a
\* control character or a blank in the host
Parse(raw) == ParseNoFrag(raw, Cut(raw, "#"))

SchemePrefix(u) ==
    IF u.scheme = "mailto" THEN <<"mailto:">>
    ELSE IF u.scheme = "" THEN <<>>
    ELSE IF u.host # <<>> \/ u.path # <<>>
    THEN <<IF u.scheme = "http" THEN "http://" ELSE "https://">>
    ELSE <<IF u.scheme = "http" THEN "http:" ELSE "https:">>

\* (*url.URL).String
String(u) ==
    SchemePrefix(u)
    \o (IF u.opaque # <<>> THEN u.opaque
        ELSE u.host
             \o (IF u.path # <<>> /\ Head(u.path) # "/" /\ u.host # <<>>
                 THEN <<"/">> ELSE <<>>)
             \o u.path)
    \o (IF u.query # <<>> THEN <<"?">> \o u.query ELSE <<>>)
    \o (IF u.frag # <<>> THEN <<"#">> \o u.frag ELSE <<>>)

\* (*url.URL).Hostname (the model has no ports)
Hostname(u) == u.host

----------------------------------------------------------------------------
(* crawler.go: URL helpers                                                 *)

NotNormalized == [ok |-> FALSE, str |-> <<>>, url |-> NoURL]

\* lines 277-284: the path of the normalized URL
normalPath(path) ==
    IF path = <<>> THEN <<"/">>
    ELSE IF path # <<"/">> THEN TrimRight(path, "/")
    ELSE path

\* lines 276-286
normalized(u) == [ok |-> TRUE, str |-> String(u), url |-> u]

normalizeParsed(parsed) ==
    IF ~parsed.ok THEN NotNormalized
    ELSE normalized([parsed EXCEPT !.frag = <<>>,
                                   !.path = normalPath(parsed.path)])

\* normalizeURL: (normalized string, parsed URL, error)
normalizeURL(raw) == normalizeParsed(Parse(raw))

RootError(msg) == [err |-> msg, str |-> <<>>, url |-> NoURL]

\* checkRoot without the Hostname test of line 264
checkRoot_NoHostCheck(n) ==
    IF ~n.ok THEN RootError("invalid root url")
    ELSE [err |-> "", str |-> n.str, url |-> n.url]

\* lines 261-268
checkRoot(n) ==
    IF ~n.ok THEN RootError("invalid root url")
    ELSE IF Hostname(n.url) = <<>> THEN RootError("invalid root url: missing host")
    ELSE [err |-> "", str |-> n.str, url |-> n.url]

\* lines 253-260
rootOf(clean) ==
    IF clean = <<>> THEN RootError("root url is required")
    ELSE checkRoot(normalizeURL(IF Head(clean) \in {"http://", "https://"}
                                THEN clean ELSE <<"https://">> \o clean))

\* normalizeRoot: err is "" on success
normalizeRoot(raw) == rootOf(TrimSpace(raw))

isHTTP(u) == u.ok /\ (u.scheme = "http" \/ u.scheme = "https")

isInternal(root, candidate) ==
    root.ok /\ candidate.ok /\ EqualFold(Hostname(root), Hostname(candidate))

\* path.Match restricted to the patterns of the model: '*' matches any run
\* of non-'/' characters, '?' one non-'/' character, anything else itself.
RECURSIVE Match(_, _)
Match(pattern, name) ==
    IF pattern = <<>> THEN name = <<>>
    ELSE IF Head(pattern) = "*"
    THEN \/ Match(Tail(pattern), name)
         \/ name # <<>> /\ ~HasSlash(Head(name)) /\ Match(pattern, Tail(name))
    ELSE IF Head(pattern) = "?"
    THEN name # <<>> /\ Head(name) \notin (SchemeTokens \cup {"/"})
         /\ Match(Tail(pattern), Tail(name))
    ELSE name # <<>> /\ Head(name) = Head(pattern)
         /\ Match(Tail(pattern), Tail(name))

BaseOf(t) == IF t = <<>> THEN <<"/">> ELSE After(t, LastIndexOf(t, "/"))

\* path.Base
Base(p) == IF p = <<>> THEN <<".">> ELSE BaseOf(TrimRight(p, "/"))

\* lines 334-342
matchQuery(pattern, queryPath) ==
    Match(pattern, queryPath) \/ Match(pattern, TrimLeft1(queryPath))

\* matchLink without the file name test of line 328
matchLink_NoBase(pattern, link, parsed) ==
    /\ pattern # <<>>
    /\ \/ Match(pattern, link)
       \/ /\ parsed.ok
          /\ \/ Match(pattern, parsed.path)
             \/ /\ parsed.query # <<>>
                /\ matchQuery(pattern, parsed.path \o <<"?">> \o parsed.query)

\* lines 313-343: one pattern against the link
matchLink(pattern, link, parsed) ==
    /\ pattern # <<>>
    /\ \/ Match(pattern, link)
       \/ /\ parsed.ok
          /\ \/ Match(pattern, parsed.path)
             \/ Match(pattern, Base(parsed.path))
             \/ /\ parsed.query # <<>>
                /\ matchQuery(pattern, parsed.path \o <<"?">> \o parsed.query)

shouldExclude(link, patterns) ==
    \E i \in 1..Len(patterns) :
        matchLink(TrimSpace(patterns[i]), link, Parse(link))

----------------------------------------------------------------------------
(* Ordering of strings (sort.Strings compares bytes)                       *)

Alphabet == <<"^", " ", "#", "*", ".", "/", "?", "X", "Y",
              "a", "b", "c", "d", "e", "f", "g", "http://", "https://",
              "k", "l", "mailto:", "n", "p", "q", "x", "y">>

Rank(tok) == IndexOf(Alphabet, tok)

RECURSIVE Less(_, _)
Less(s, t) ==
    IF t = <<>> THEN FALSE
    ELSE IF s = <<>> THEN TRUE
    ELSE IF Head(s) = Head(t) THEN Less(Tail(s), Tail(t))
    ELSE Rank(Head(s)) < Rank(Head(t))

\* the members of a set of strings in ascending order
RECURSIVE SortStrings(_)
SortStrings(S) ==
    IF S = {} THEN <<>>
    ELSE LET m == CHOOSE x \in S : \A y \in S \ {x} : Less(x, y)
         IN  <<m>> \o SortStrings(S \ {m})

----------------------------------------------------------------------------
(* lastmod.go                                                               *)

\* GetLastModified: the first tier that yields a date; "" is a tier that is
\* absent or does not parse.
GetLastModified(resp, now) ==
    IF resp.jsonld # "" THEN resp.jsonld
    ELSE IF resp.meta # "" THEN resp.meta
    ELSE IF resp.header # "" THEN resp.header
    ELSE now

----------------------------------------------------------------------------
(* The crawled server: what a fetch of a URL can answer                    *)

\* one answer of the server: the path the response finally came from (it
\* differs from the requested path after a redirect), the status (0: no
\* HTTP response), the href attributes of the a[href] elements of the body
\* and the three places a modification date can stand in
Page(path, status, links) ==
    [path |-> path, status |-> status, links |-> links,
     jsonld |-> "", meta |-> "", header |-> ""]

Dated(page, jsonld, meta, header) ==
    [page EXCEPT !.jsonld = jsonld, !.meta = meta, !.header = header]

P(name) == <<"/", name>>

\* newTestServer of the tests (a: about, b: broken, c: contact, e: excluded)
TestSite ==
    (<<"/">> :> {Page(<<"/">>, 200, <<P("a"), P("c"), P("e")>>)})
    @@ (P("a") :> {Page(P("a"), 200, <<<<"/">>, P("b")>>)})
    @@ (P("c") :> {Dated(Page(P("c"), 200, <<>>), "", "t2", "t3")})
    @@ (P("b") :> {Page(P("b"), 404, <<>>)})
    @@ (P("e") :> {Page(P("e"), 200, <<>>)})

\* TestCrawl_MaxDepth: / -> /a -> /b -> /c
ChainSite ==
    (<<"/">> :> {Page(<<"/">>, 200, <<P("a")>>)})
    @@ (P("a") :> {Page(P("a"), 200, <<P("b")>>)})
    @@ (P("b") :> {Page(P("b"), 200, <<P("c")>>)})
    @@ (P("c") :> {Page(P("c"), 200, <<>>)})

\* TestCrawl_TrailingSlashNormalization
SlashSite ==
    (<<"/">> :> {Page(<<"/">>, 200,
                      <<P("a"), P("a") \o <<"/">>, P("a") \o <<"#", "f">>>>)})
    @@ (P("a") :> {Dated(Page(P("a"), 200, <<<<" ", "/", " ">>>>), "t1", "t2", "")})

\* TestCrawl_ExternalLinksIgnored
ExternalSite ==
    (<<"/">> :> {Page(<<"/">>, 200,
                      <<<<"https://", "y", "/", "p">>, <<"mailto:", "y">>,
                        <<"#", "f">>, <<" ">>, <<"/", "^">>>>)})

\* a server whose answers vary: /c redirects to /a/, and /a and /a/ answer
\* differently, so the normalized URL of /a is reported more than once
AliasSite ==
    (<<"/">> :> {Page(<<"/">>, 200,
                      <<P("a"), P("c"), P("d"), P("d") \o <<"/">>>>)})
    @@ (P("a") :> {Page(P("a"), 200, <<>>), Page(P("a"), 404, <<P("b")>>),
                   Page(P("a"), 0, <<>>)})
    @@ (P("c") :> {Page(P("a") \o <<"/">>, 200, <<P("d")>>),
                   Page(P("a") \o <<"/">>, 500, <<>>)})
    @@ (P("d") :> {Page(P("d"), 204, <<>>), Page(P("d"), 300, <<P("b")>>),
                   Page(P("d"), 200, <<P("a"), P("b")>>)})

\* a root page that fails
RootFailSite ==
    (<<"/">> :> {Page(<<"/">>, 0, <<>>), Page(<<"/">>, 500, <<>>)})

\* TestCrawl_ExternalLinksIgnored as written: the root links only to another
\* host and to a scheme that is not http(s)
ForeignSite ==
    (<<"/">> :> {Page(<<"/">>, 200,
                      <<<<"https://", "y", "/", "p">>, <<"mailto:", "y">>,
                        <<"http://", "x", "y">>>>)})

\* /e is linked three times on two pages, once with a slash at the end,
\* and a page of the same path is linked on another host
RepeatSite ==
    (<<"/">> :> {Page(<<"/">>, 200,
                      <<P("e"), P("e") \o <<"/">>,
                        <<"https://", "y", "/", "e">>, P("a")>>)})
    @@ (P("a") :> {Page(P("a"), 200, <<P("e")>>)})
    @@ (P("e") :> {Page(P("e"), 200, <<>>)})

\* /b is linked from the root and from /a, so it is one or two hops away
DiamondSite ==
    (<<"/">> :> {Page(<<"/">>, 200, <<P("a"), P("b")>>)})
    @@ (P("a") :> {Page(P("a"), 200, <<P("b")>>)})
    @@ (P("b") :> {Page(P("b"), 200, <<P("c")>>)})
    @@ (P("c") :> {Page(P("c"), 200, <<>>)})

StarLeaves == 6

LeafNames == <<"a", "b", "c", "d", "e", "f", "g", "k">>

\* one page that links to StarLeaves others
StarSite ==
    (<<"/">> :> {Page(<<"/">>, 200, [i \in 1..StarLeaves |-> P(LeafNames[i])])})

Sites ==
    [test |-> [reachable |-> TRUE, pages |-> TestSite],
     chain |-> [reachable |-> TRUE, pages |-> ChainSite],
     slash |-> [reachable |-> TRUE, pages |-> SlashSite],
     external |-> [reachable |-> TRUE, pages |-> ExternalSite],
     alias |-> [reachable |-> TRUE, pages |-> AliasSite],
     rootfail |-> [reachable |-> TRUE, pages |-> RootFailSite],
     star |-> [reachable |-> TRUE, pages |-> StarSite],
     foreign |-> [reachable |-> TRUE, pages |-> ForeignSite],
     diamond |-> [reachable |-> TRUE, pages |-> DiamondSite],
     repeat |-> [reachable |-> TRUE, pages |-> RepeatSite],
     down |-> [reachable |-> FALSE, pages |-> RootFailSite]]

----------------------------------------------------------------------------
(* Options of the crawls that are explored                                  *)

MaxThreads == 2
MaxDepthOpt == 3

Base1 == <<"http://", "x">>

ValidRoots == {Base1, <<"x">>, <<" ", "http://", "x", "/", " ">>}

InvalidRoots == {<<>>, <<" ", " ">>, <<"https://">>, <<"/", "a">>,
                 <<"x", "^">>, <<"http://", "x", " ", "y">>}

ExcludeE == <<<<" ">>, <<"/", "e">>>>

\* a pattern that matches the path of the root
ExcludeRoot == <<<<"/">>>>

Scenarios ==
    {sc \in [site : DOMAIN Sites, RootURL : ValidRoots \cup InvalidRoots,
             MaxDepth : 0..MaxDepthOpt, Threads : 0..MaxThreads,
             ExcludePatterns : {<<>>, ExcludeE, ExcludeRoot}] :
        /\ sc.RootURL \in InvalidRoots
             => sc.site = "test" /\ sc.MaxDepth = 0 /\ sc.Threads = 1
        /\ sc.RootURL \in ValidRoots \ {Base1} => sc.site \in {"slash", "down"}
        /\ sc.ExcludePatterns = ExcludeE => sc.site \in {"test", "repeat"}
        /\ sc.site = "repeat"
             => /\ sc.ExcludePatterns = ExcludeE
                /\ sc.MaxDepth = 0
                /\ sc.Threads \in 1..MaxThreads
        /\ sc.ExcludePatterns = ExcludeRoot
             => sc.site \in {"test", "rootfail"} /\ sc.MaxDepth = 0
        /\ sc.site = "diamond" => sc.Threads \in 1..MaxThreads
        /\ sc.site = "star" => sc.MaxDepth = 0 /\ sc.Threads \in {0, MaxThreads}
        /\ sc.site \in {"down", "rootfail", "external", "foreign"}
             => sc.MaxDepth = 0 /\ sc.Threads = 1}

----------------------------------------------------------------------------
(* State                                                                   *)

VARIABLES
    opts,           \* the Options the caller passed
    site,           \* the server that is crawled
    pc,             \* where Crawl stands: start, visit, wait, assemble, done
    err,            \* the error Crawl returns ("" is nil)
    result,         \* the Result Crawl returns
    threads,        \* opts.Threads of Crawl's copy of the options
    normalizedRoot, parsedRoot,
    created,        \* the maps of lines 104-111 exist
    valid, broken, discovered, sources, lastModified, excluded,
    visited,        \* colly's store of visited URLs
    reqs,           \* colly's requests that have not finished (its WaitGroup)
    fetched,        \* how often each normalized URL has been requested
    last,           \* per URL, the status of the last completion reported
    delivered,      \* the responses that were handed to the handlers
    args,           \* the arguments of a helper function that is called alone
    ret,            \* what that function returns
    frame           \* its local variables while it runs

state == <<valid, broken, discovered, sources, lastModified, excluded>>

\* the variables of Crawl
crawl == <<opts, site, pc, err, result, threads, normalizedRoot, parsedRoot,
           created, valid, broken, discovered, sources, lastModified, excluded,
           visited, reqs, fetched, last, delivered>>

vars == <<opts, site, pc, err, result, threads, normalizedRoot, parsedRoot,
          created, valid, broken, discovered, sources, lastModified, excluded,
          visited, reqs, fetched, last, delivered, args, ret, frame>>

Empty == <<>>

NoResult == [ok |-> FALSE]

DefaultThreads == 5

Now == "now"

MapPut(f, k, v) == [x \in (DOMAIN f) \cup {k} |-> IF x = k THEN v ELSE f[x]]

MapDelete(f, k) == [x \in (DOMAIN f) \ {k} |-> f[x]]

MapGet(f, k, default) == IF k \in DOMAIN f THEN f[k] ELSE default

Init ==
    /\ \E sc \in Scenarios :
          /\ opts = [RootURL |-> sc.RootURL, MaxDepth |-> sc.MaxDepth,
                     Threads |-> sc.Threads,
                     ExcludePatterns |-> sc.ExcludePatterns]
          /\ site = Sites[sc.site]
          /\ threads = sc.Threads
    /\ pc = "start"
    /\ err = ""
    /\ result = NoResult
    /\ normalizedRoot = <<>>
    /\ parsedRoot = NoURL
    /\ created = FALSE
    /\ valid = {}
    /\ broken = Empty
    /\ discovered = {}
    /\ sources = Empty
    /\ lastModified = Empty
    /\ excluded = 0
    /\ visited = {}
    /\ reqs = {}
    /\ fetched = Empty
    /\ last = Empty
    /\ delivered = {}
    /\ args = <<>>
    /\ ret = <<>>
    /\ frame = <<>>

----------------------------------------------------------------------------
(* The collector (github.com/gocolly/colly/v2) as Crawl configures it      *)

\* the path and query a request of u asks the server for
RequestKey(u) ==
    (IF u.path = <<>> THEN <<"/">> ELSE u.path)
    \o (IF u.query # <<>> THEN <<"?">> \o u.query ELSE <<>>)

PagesAt(key) ==
    IF key \in DOMAIN site.pages THEN site.pages[key]
    ELSE {Page(key, 404, <<>>)}

\* r.Request.URL is the URL of the final response, or the requested URL
\* when there was no response
ResponseOf(pg, url, u, key) ==
    [url |-> IF pg.status = 0 \/ pg.path = key THEN url
             ELSE String([u EXCEPT !.path = pg.path, !.query = <<>>]),
     status |-> pg.status, links |-> pg.links,
     jsonld |-> pg.jsonld, meta |-> pg.meta, header |-> pg.header]

ResponsesAt(url, u, key) == {ResponseOf(pg, url, u, key) : pg \in PagesAt(key)}

ResponsesTo(url, u) == ResponsesAt(url, u, RequestKey(u))

\* the answers the server can give to a request of url, as the handlers
\* see them
Responses(url) == ResponsesTo(url, Parse(url))

NoResponse ==
    [url |-> <<>>, status |-> 0, links |-> <<>>,
     jsonld |-> "", meta |-> "", header |-> ""]

\* Resolve that takes every href as a path on the host of the page
Resolve_Rebase(b, href, h) ==
    IF href # <<>> /\ Head(href) = "#" THEN <<>>
    ELSE IF ~h.ok THEN <<>>
    ELSE String([h EXCEPT !.scheme = b.scheme, !.host = b.host])

Resolve(b, href, h) ==
    IF href # <<>> /\ Head(href) = "#" THEN <<>>
    ELSE IF ~h.ok THEN <<>>
    ELSE IF h.scheme # "" THEN String(h)
    ELSE String([h EXCEPT !.scheme = b.scheme, !.host = b.host])

\* Request.AbsoluteURL: "" for a fragment-only href or one that does not
\* parse, otherwise the href resolved against the URL of the page
AbsoluteURL(base, href) == Resolve(Parse(base), href, Parse(href))

\* colly hands a response to OnError instead of OnResponse and OnHTML when
\* the request failed or its status is 203 or more (ParseHTTPErrorResponse
\* is left false)
IsErrorResponse(resp) == resp.status = 0 \/ resp.status >= 203

\* colly.MaxDepth: the root has depth 1
DepthExceeded(depth) == opts.MaxDepth > 0 /\ opts.MaxDepth < depth

\* colly.AllowedDomains
DomainAllowed(url) == Hostname(Parse(url)) = Hostname(parsedRoot)

\* the collector with IgnoreRobotsTxt left true
RobotsRefused_Ignored(url) == FALSE

\* IgnoreRobotsTxt = false: robots.txt of the host is fetched before the
\* first request, and the request is refused when that fetch fails
RobotsRefused(url) == ~site.reachable

AlreadyVisited(url) == url \in visited

\* the error of Collector.Visit / Request.Visit, "" when the request is
\* accepted
requestCheck(url, depth) ==
    IF DepthExceeded(depth) THEN "max depth limit reached"
    ELSE IF ~DomainAllowed(url) THEN "forbidden domain"
    ELSE IF RobotsRefused(url) THEN "robots.txt unavailable"
    ELSE IF AlreadyVisited(url) THEN "already visited"
    ELSE ""

FetchCount(key) == MapGet(fetched, key, 0)

NewRequestAt(url, depth, key) ==
    [url |-> url, depth |-> depth, phase |-> "queued", next |-> 0,
     resp |-> NoResponse, n |-> FetchCount(key) + 1]

NewRequest(url, depth) == NewRequestAt(url, depth, normalizeURL(url).str)

CountFetchAt(key) == MapPut(fetched, key, FetchCount(key) + 1)

CountFetch(url) == CountFetchAt(normalizeURL(url).str)

InFlight == {r \in reqs : r.phase = "inflight"}

\* the collector without the c.Limit of line 96
LimitFree_Unbounded == TRUE

\* a limit that never lets a request through
LimitFree_Never == FALSE

\* colly.LimitRule{DomainGlob: "*", Parallelism: opts.Threads}
LimitFree == Cardinality(InFlight) < threads

\* Crawl without the c.Wait() of line 203
WaitDone_NoBarrier == TRUE

\* Collector.Wait returns when no request is unfinished
WaitDone == reqs = {}

----------------------------------------------------------------------------
(* Crawl                                                                   *)

\* lines 72-111 for the normalized root
Setup(root) ==
    IF root.err # ""
    THEN /\ err' = root.err
         /\ pc' = "done"
         /\ UNCHANGED <<threads, normalizedRoot, parsedRoot, created>>
    ELSE /\ normalizedRoot' = root.str
         /\ parsedRoot' = root.url
         /\ threads' = IF threads <= 0 THEN DefaultThreads ELSE threads
         /\ created' = TRUE
         /\ pc' = "visit"
         /\ err' = err

\* lines 72-111: normalize the root, default the options, make the maps
Start ==
    /\ pc = "start"
    /\ Setup(normalizeRoot(opts.RootURL))
    /\ UNCHANGED <<args, ret, frame, opts, site, result, state, visited, reqs, fetched, last,
                   delivered>>

\* lines 200-202: c.Visit(normalizedRoot)
VisitRoot ==
    /\ pc = "visit"
    /\ LET e == requestCheck(normalizedRoot, 1)
       IN  IF e # ""
           THEN /\ err' = "start crawling"
                /\ pc' = "done"
                /\ UNCHANGED <<visited, reqs, fetched>>
           ELSE /\ visited' = visited \cup {normalizedRoot}
                /\ reqs' = reqs \cup {NewRequest(normalizedRoot, 1)}
                /\ fetched' = CountFetch(normalizedRoot)
                /\ pc' = "wait"
                /\ err' = err
    /\ UNCHANGED <<args, ret, frame, opts, site, result, threads, normalizedRoot, parsedRoot,
                   created, state, last, delivered>>

\* a waiting request gets one of the opts.Threads slots and is sent
Dispatch(r) ==
    /\ r.phase = "queued"
    /\ LimitFree
    /\ reqs' = (reqs \ {r}) \cup {[r EXCEPT !.phase = "inflight"]}
    /\ UNCHANGED <<args, ret, frame, opts, site, pc, err, result, threads, normalizedRoot,
                   parsedRoot, created, state, visited, fetched, last,
                   delivered>>

\* recordResponse without the delete(broken, normalizedLink) of line 166
recordResponse_KeepBroken(resp, n) ==
    IF ~n.ok THEN <<valid, broken, discovered, lastModified>>
    ELSE IF resp.status >= 200 /\ resp.status < 400
    THEN <<valid \cup {n.str}, broken, discovered \cup {n.str},
           MapPut(lastModified, n.str, GetLastModified(resp, Now))>>
    ELSE <<valid \ {n.str}, MapPut(broken, n.str, resp.status),
           discovered \cup {n.str}, lastModified>>

\* lines 160-179
recordResponse(resp, n) ==
    IF ~n.ok THEN <<valid, broken, discovered, lastModified>>
    ELSE IF resp.status >= 200 /\ resp.status < 400
    THEN <<valid \cup {n.str},
           MapDelete(broken, n.str),
           discovered \cup {n.str},
           MapPut(lastModified, n.str, GetLastModified(resp, Now))>>
    ELSE <<valid \ {n.str},
           MapPut(broken, n.str, resp.status),
           discovered \cup {n.str},
           lastModified>>

\* lines 154-180, the OnResponse handler: the new <<valid, broken,
\* discovered, lastModified>>
OnResponse(resp) == recordResponse(resp, normalizeURL(resp.url))

\* recordError that forgets the failure
recordError_Dropped(resp, n) == <<valid \ {n.str}, broken>>

\* lines 192-197
recordError(resp, n) ==
    IF ~n.ok THEN <<valid, broken>>
    ELSE <<valid \ {n.str}, MapPut(broken, n.str, resp.status)>>

\* lines 182-198, the OnError handler: the new <<valid, broken>>
OnError(resp) == recordError(resp, normalizeURL(resp.url))

ReportedAt(resp, n) == IF n.ok THEN MapPut(last, n.str, resp.status) ELSE last

\* what the handlers of one completion were told, kept per normalized URL
Reported(resp) == ReportedAt(resp, normalizeURL(resp.url))

\* colly calls OnError and the request is over
Failed(r, resp, new) ==
    /\ valid' = new[1]
    /\ broken' = new[2]
    /\ UNCHANGED <<discovered, lastModified>>
    /\ reqs' = reqs \ {r}

\* colly calls OnResponse, and then OnHTML if the body has a[href] elements
Answered(r, resp, new) ==
    /\ valid' = new[1]
    /\ broken' = new[2]
    /\ discovered' = new[3]
    /\ lastModified' = new[4]
    /\ reqs' = IF resp.links = <<>> THEN reqs \ {r}
               ELSE (reqs \ {r}) \cup
                    {[r EXCEPT !.phase = "html", !.next = 1, !.resp = resp]}

\* a fetch completes: its slot is freed and colly calls OnError, or
\* OnResponse and then OnHTML for each a[href] of the body
Complete(r) ==
    /\ r.phase = "inflight"
    /\ \E resp \in Responses(r.url) :
          /\ IF IsErrorResponse(resp)
             THEN Failed(r, resp, OnError(resp))
             ELSE Answered(r, resp, OnResponse(resp))
          /\ last' = Reported(resp)
          /\ delivered' = delivered \cup {resp}
    /\ UNCHANGED <<args, ret, frame, opts, site, pc, err, result, threads, normalizedRoot,
                   parsedRoot, created, sources, excluded, visited, fetched>>

\* Decide that records and visits a link although it is excluded
Decide_RecordExcluded(absolute, n, internal, source) ==
    [absolute |-> absolute,
     normalizedLink |-> n.str,
     excluded |-> internal /\ shouldExclude(n.str, opts.ExcludePatterns),
     record |-> internal,
     source |-> source]

\* lines 129-138 for the normalized link n: what is decided about it
Decide(absolute, n, internal, source) ==
    [absolute |-> absolute,
     normalizedLink |-> n.str,
     excluded |-> internal /\ shouldExclude(n.str, opts.ExcludePatterns),
     record |-> internal /\ ~shouldExclude(n.str, opts.ExcludePatterns),
     source |-> source]

\* lines 124-131
Classify(absolute, n, source) ==
    Decide(absolute, n,
           n.ok /\ isHTTP(n.url) /\ isInternal(parsedRoot, n.url), source)

\* lines 119-127 and 142
LinkAt(base, absolute) ==
    Classify(absolute,
             IF absolute = <<>> THEN NotNormalized ELSE normalizeURL(absolute),
             normalizeURL(base))

\* lines 114-119
LinkOf(base, raw) ==
    LinkAt(base, IF raw = <<>> THEN <<>> ELSE AbsoluteURL(base, raw))

\* lines 113-152, the OnHTML handler on one a[href] element of the page
\* of request r: what it decides about the link
Link(r) == LinkOf(r.resp.url, TrimSpace(r.resp.links[r.next]))

\* RecordLink without lines 142-148: the referring page is not kept
RecordLink_NoSource(link) == <<discovered \cup {link.normalizedLink}, sources>>

\* lines 140-149: the new <<discovered, sources>>
RecordLink(link) ==
    <<discovered \cup {link.normalizedLink},
      IF link.source.ok
      THEN MapPut(sources, link.normalizedLink,
                  MapGet(sources, link.normalizedLink, {})
                      \cup {link.source.str})
      ELSE sources>>

\* e.Request.Visit(absolute) instead of the normalized link
VisitTarget_Raw(link) == link.absolute

\* line 151: the URL handed to e.Request.Visit
VisitTarget(link) == link.normalizedLink

\* what is left of request r after its link r.next
Rest(r) ==
    IF r.next < Len(r.resp.links) THEN {[r EXCEPT !.next = r.next + 1]}
    ELSE {}

\* line 151: e.Request.Visit(target), accepted or refused by the collector
Enqueue(r, target, accepted) ==
    /\ visited' = IF accepted THEN visited \cup {target} ELSE visited
    /\ fetched' = IF accepted THEN CountFetch(target) ELSE fetched
    /\ reqs' = ((reqs \ {r}) \cup Rest(r))
               \cup (IF accepted THEN {NewRequest(target, r.depth + 1)}
                     ELSE {})

\* lines 133-151
Handle(r, link, new) ==
    /\ excluded' = IF link.excluded THEN excluded + 1 ELSE excluded
    /\ discovered' = IF link.record THEN new[1] ELSE discovered
    /\ sources' = IF link.record THEN new[2] ELSE sources
    /\ Enqueue(r, VisitTarget(link),
               link.record /\ requestCheck(VisitTarget(link), r.depth + 1) = "")

HandleLink(r, link) == Handle(r, link, RecordLink(link))

OnHTML(r) ==
    /\ r.phase = "html"
    /\ HandleLink(r, Link(r))
    /\ UNCHANGED <<args, ret, frame, opts, site, pc, err, result, threads, normalizedRoot,
                   parsedRoot, created, valid, broken, lastModified, last,
                   delivered>>

\* line 203: c.Wait()
Wait ==
    /\ pc = "wait"
    /\ WaitDone
    /\ pc' = "assemble"
    /\ UNCHANGED <<args, ret, frame, opts, site, err, result, threads, normalizedRoot,
                   parsedRoot, created, state, visited, reqs, fetched, last,
                   delivered>>

\* a sequence back to front
Reverse(seq) == [i \in 1..Len(seq) |-> seq[Len(seq) + 1 - i]]

\* ValidURLs without the sort.Strings of line 212: the order of the map
ValidURLs_Unsorted ==
    Reverse(SortStrings({u \in valid : ~shouldExclude(u, opts.ExcludePatterns)}))

\* lines 205-212
ValidURLs ==
    SortStrings({u \in valid : ~shouldExclude(u, opts.ExcludePatterns)})

\* BrokenLinks without the shouldExclude test of lines 217-219
BrokenLinks_Unfiltered == broken

\* lines 214-220
BrokenLinks ==
    [u \in {v \in DOMAIN broken : ~shouldExclude(v, opts.ExcludePatterns)}
        |-> broken[u]]

\* BrokenLinkTasks without the sort.Strings of line 228: the sources in the
\* order of the map
BrokenLinkTasks_SourcesUnsorted ==
    LET urls == SortStrings(DOMAIN BrokenLinks)
    IN  [i \in 1..Len(urls) |->
            [URL |-> urls[i], Status |-> broken[urls[i]],
             Sources |-> IF urls[i] \in DOMAIN sources
                         THEN Reverse(SortStrings(sources[urls[i]]))
                         ELSE <<>>]]

\* lines 222-239
BrokenLinkTasks ==
    LET urls == SortStrings(DOMAIN BrokenLinks)
    IN  [i \in 1..Len(urls) |->
            [URL |-> urls[i], Status |-> broken[urls[i]],
             Sources |-> IF urls[i] \in DOMAIN sources
                         THEN SortStrings(sources[urls[i]])
                         ELSE <<>>]]

\* lines 205-248: the Result is put together
Assemble ==
    /\ pc = "assemble"
    /\ result' = [ok |-> TRUE,
                  ValidURLs |-> ValidURLs,
                  BrokenLinks |-> BrokenLinks,
                  BrokenLinkTasks |-> BrokenLinkTasks,
                  LastModified |-> lastModified,
                  Discovered |-> Cardinality(discovered),
                  ExcludedURLs |-> excluded]
    /\ pc' = "done"
    /\ UNCHANGED <<args, ret, frame, opts, site, err, threads, normalizedRoot, parsedRoot,
                   created, state, visited, reqs, fetched, last, delivered>>

Next ==
    \/ Start
    \/ VisitRoot
    \/ \E r \in reqs : Dispatch(r)
    \/ \E r \in reqs : Complete(r)
    \/ \E r \in reqs : OnHTML(r)
    \/ Wait
    \/ Assemble

Spec == Init /\ [][Next]_vars

\* the guards of Next: Crawl has a statement to run, a queued request has a
\* free slot, or a request that was sent has a response or a link to handle
CanStep ==
    \/ pc \in {"start", "visit", "assemble"}
    \/ pc = "wait" /\ WaitDone
    \/ \E r \in reqs : r.phase = "queued" /\ LimitFree
    \/ \E r \in reqs : r.phase \in {"inflight", "html"}

\* the goroutines of the crawl are scheduled and every fetch that was sent
\* completes or times out: weak fairness of Next, its enabling condition
\* written out as CanStep
FairSpec == Spec /\ ([]<>~CanStep \/ []<><<Next>>_vars)

----------------------------------------------------------------------------
(* The helper functions called on their own                                *)

\* no crawl is running
NoCrawl ==
    /\ opts = [RootURL |-> <<>>, MaxDepth |-> 0, Threads |-> 0,
               ExcludePatterns |-> <<>>]
    /\ site = [reachable |-> FALSE, pages |-> <<>>]
    /\ err = ""
    /\ result = NoResult
    /\ threads = 0
    /\ normalizedRoot = <<>>
    /\ parsedRoot = NoURL
    /\ created = FALSE
    /\ valid = {}
    /\ broken = Empty
    /\ discovered = {}
    /\ sources = Empty
    /\ lastModified = Empty
    /\ excluded = 0
    /\ visited = {}
    /\ reqs = {}
    /\ fetched = Empty
    /\ last = Empty
    /\ delivered = {}

\* the helper returns value
Return(value) ==
    /\ ret' = value
    /\ pc' = "returned"
    /\ UNCHANGED <<args, frame, opts, site, err, result, threads,
                   normalizedRoot, parsedRoot, created, state, visited, reqs,
                   fetched, last, delivered>>

MaxSlashes == 2

Slashes(n) == [i \in 1..n |-> "/"]

\* a reference that starts with "//" names a host, not a path
NetworkPath(raw) == Len(raw) >= 2 /\ raw[1] = "/" /\ raw[2] = "/"

\* the URLs normalizeURL is called with: absolute and relative, with and
\* without path, query and fragment, with up to MaxSlashes slashes at the
\* end of the path, and one that does not parse
NormalizeInputs ==
    {raw \in {origin \o stem \o Slashes(n) \o query \o fragment :
                 origin \in {<<"https://", "x">>, <<"http://", "x">>,
                             <<"https://", "X">>, <<>>},
                 stem \in {<<>>, <<"/", "a">>, <<"/", "a", "/", "b">>},
                 n \in 0..MaxSlashes,
                 query \in {<<>>, <<"?", "q">>},
                 fragment \in {<<>>, <<"#", "f">>}} : ~NetworkPath(raw)}
    \cup {<<"https://", "x", "/", "^">>}

NormalizeInit ==
    /\ NoCrawl
    /\ pc = "normalizeURL"
    /\ args \in NormalizeInputs
    /\ ret = <<>>
    /\ frame = <<>>

\* normalizeURL(raw)
CallNormalizeURL ==
    /\ pc = "normalizeURL"
    /\ Return(normalizeURL(args))

NormalizeNext == CallNormalizeURL

NormalizeSpec == NormalizeInit /\ [][NormalizeNext]_vars

MaxPatterns == 2

\* the normalized links shouldExclude is called with (f.pdf, admin/y as
\* a/y, page?lang=rs as p?l)
ExcludeLinks ==
    {<<"https://", "x">> \o path \o query :
        path \in {<<"/">>, <<"/", "y">>, <<"/", "a">>, <<"/", "a", "/", "y">>,
                  <<"/", "a", "/", "y", "/", "b">>,
                  <<"/", "f", ".", "p", "d", "f">>,
                  <<"/", "a", "/", "f", ".", "p", "d", "f">>, <<"/", "p">>},
        query \in {<<>>, <<"?", "l">>}}

\* the patterns of TestShouldExclude and of the README: "", blank, *.pdf,
\* /admin/*, */admin/*, *?lang=rs, and some more
ExcludeGlobs ==
    {<<>>, <<" ", " ">>, <<"*", ".", "p", "d", "f">>, <<"/", "a", "/", "*">>,
     <<"*", "/", "a", "/", "*">>, <<"*", "?", "l">>, <<" ", "/", "y", " ">>,
     <<"?">>, <<"*">>, <<"y">>}

PatternLists ==
    UNION {[1..n -> ExcludeGlobs] : n \in 0..MaxPatterns}

ExcludeInit ==
    /\ NoCrawl
    /\ pc = "shouldExclude"
    /\ args \in [link : ExcludeLinks, patterns : PatternLists]
    /\ ret = <<>>
    /\ frame = <<>>

\* shouldExclude(link, patterns)
CallShouldExclude ==
    /\ pc = "shouldExclude"
    /\ Return(shouldExclude(args.link, args.patterns))

ExcludeNext == CallShouldExclude

ExcludeSpec == ExcludeInit /\ [][ExcludeNext]_vars

----------------------------------------------------------------------------
(* canonical.go: Validate                                                  *)

IssueNonHTTPScheme == "non_http_scheme"
IssueCrossDomain == "cross_domain"
IssueTargetBroken == "target_broken"
IssueTargetRedirect == "target_redirect"
IssueLoopOrChain == "loop_or_chain"

Issue(page, canonical, type, detail) ==
    [PageURL |-> page, CanonicalURL |-> canonical, Type |-> type,
     Detail |-> detail]

\* the (Issue, bool) a check returns
Found(issue) == [ok |-> TRUE, issue |-> issue]
NotFound == [ok |-> FALSE, issue |-> Issue(<<>>, <<>>, "", "")]

\* lines 169-178: the status of the target, when the crawl knows it
checkStatus(page, target, statusByURL) ==
    IF target \notin DOMAIN statusByURL THEN NotFound
    ELSE IF statusByURL[target] >= 300 /\ statusByURL[target] < 400
    THEN Found(Issue(page, target, IssueTargetRedirect,
                     "canonical target responds with redirect"))
    ELSE IF statusByURL[target] = 0 \/ statusByURL[target] >= 400
    THEN Found(Issue(page, target, IssueTargetBroken,
                     "canonical target is broken/unreachable"))
    ELSE NotFound

\* lines 162-167: the hosts of page and target
checkHost(page, target, statusByURL, parsedPage, parsedTarget) ==
    IF parsedPage.ok /\ ~EqualFold(Hostname(parsedPage), Hostname(parsedTarget))
    THEN Found(Issue(page, target, IssueCrossDomain,
                     "canonical target is on a different host"))
    ELSE checkStatus(page, target, statusByURL)

\* lines 153-160: the target parses and its scheme is http or https
checkScheme(page, target, statusByURL, parsedTarget) ==
    IF ~parsedTarget.ok THEN NotFound
    ELSE IF parsedTarget.scheme \notin {"http", "https"}
    THEN Found(Issue(page, target, IssueNonHTTPScheme,
                     "canonical target is not HTTP(S)"))
    ELSE checkHost(page, target, statusByURL, Parse(page), parsedTarget)

\* validatePair with the status looked at before the host
validatePair_StatusFirst(page, target, statusByURL) ==
    IF ~Parse(target).ok THEN NotFound
    ELSE IF Parse(target).scheme \notin {"http", "https"}
    THEN Found(Issue(page, target, IssueNonHTTPScheme,
                     "canonical target is not HTTP(S)"))
    ELSE IF checkStatus(page, target, statusByURL).ok
    THEN checkStatus(page, target, statusByURL)
    ELSE checkHost(page, target, Empty, Parse(page), Parse(target))

validatePair(page, target, statusByURL) ==
    checkScheme(page, target, statusByURL, Parse(target))

\* lines 196 and 209 without the test of steps
chainIssue_Never(start, target, steps) ==
    NotFound

\* lines 195-198 and 208-211: the walk has come to its end
chainIssue(start, target, steps) ==
    IF steps >= 2
    THEN Found(Issue(start, target, IssueLoopOrChain, "canonical chain detected"))
    ELSE NotFound

\* lines 203 and 219 without the issue
loopIssue_Never(start, target) ==
    NotFound

\* lines 203 and 219: the walk has come back to a page of the path
loopIssue(start, target) ==
    Found(Issue(start, target, IssueLoopOrChain, "canonical loop detected"))

\* line 201 without the visited map
Seen_Never(visitedPages, current) ==
    FALSE

\* line 201: _, seen := visited[current]
Seen(visitedPages, current) ==
    current \in DOMAIN visitedPages

\* lines 182-185: no walk for a page that is not in the map, has an empty
\* canonical or is its own canonical
NoWalk(start, canonicalByPage) ==
    \/ start \notin DOMAIN canonicalByPage
    \/ canonicalByPage[start] = <<>>
    \/ canonicalByPage[start] = start

\* Report that keeps one issue per page
Report_OncePerPage(f, found, key) ==
    IF /\ found.ok
       /\ key \notin f.seen
       /\ \A i \in DOMAIN f.issues : f.issues[i].PageURL # found.issue.PageURL
    THEN [f EXCEPT !.issues = Append(@, found.issue), !.seen = @ \cup {key}]
    ELSE f

\* lines 120-124 and 128-132: append the issue unless its key was seen
Report(f, found, key) ==
    IF found.ok /\ key \notin f.seen
    THEN [f EXCEPT !.issues = Append(@, found.issue), !.seen = @ \cup {key}]
    ELSE f

PairKey(issue) == <<issue.Type, issue.PageURL, issue.CanonicalURL>>
WalkKey(issue) == <<issue.Type, issue.PageURL, issue.CanonicalURL, issue.Detail>>

\* the issue types and the details in the order of their bytes
TypeOrder ==
    <<IssueCrossDomain, IssueLoopOrChain, IssueNonHTTPScheme,
      IssueTargetBroken, IssueTargetRedirect>>

DetailOrder ==
    <<"canonical chain detected", "canonical loop detected",
      "canonical target is broken/unreachable",
      "canonical target is not HTTP(S)",
      "canonical target is on a different host",
      "canonical target responds with redirect">>

\* the sort of lines 136-147 with the Type compared before the PageURL
IssueLess_TypeFirst(i, j) ==
    IF i.Type # j.Type
    THEN IndexOf(TypeOrder, i.Type) < IndexOf(TypeOrder, j.Type)
    ELSE IF i.PageURL # j.PageURL THEN Less(i.PageURL, j.PageURL)
    ELSE IF i.CanonicalURL # j.CanonicalURL
    THEN Less(i.CanonicalURL, j.CanonicalURL)
    ELSE IndexOf(DetailOrder, i.Detail) < IndexOf(DetailOrder, j.Detail)

\* lines 136-147: the comparison of the sort
IssueLess(i, j) ==
    IF i.PageURL # j.PageURL THEN Less(i.PageURL, j.PageURL)
    ELSE IF i.Type # j.Type
    THEN IndexOf(TypeOrder, i.Type) < IndexOf(TypeOrder, j.Type)
    ELSE IF i.CanonicalURL # j.CanonicalURL
    THEN Less(i.CanonicalURL, j.CanonicalURL)
    ELSE IndexOf(DetailOrder, i.Detail) < IndexOf(DetailOrder, j.Detail)

\* sort.Slice on issues that differ from each other
RECURSIVE SortIssues(_)
SortIssues(S) ==
    IF S = {} THEN <<>>
    ELSE LET m == CHOOSE x \in S : \A y \in S \ {x} : IssueLess(x, y)
         IN  <<m>> \o SortIssues(S \ {m})

PageA == <<"https://", "x", "/", "a">>
PageB == <<"https://", "x", "/", "b">>
PageC == <<"https://", "X", "/", "c">>
PageD == <<"https://", "x", "/", "d">>
Mail == <<"mailto:", "y">>
Elsewhere == <<"https://", "y", "/", "a">>
Malformed == <<"https://", "x", "/", "^">>

CanonicalPages == {PageA, PageB, PageC}

CanonicalTargets ==
    CanonicalPages \cup {PageD, Mail, Elsewhere, Malformed, <<>>}

\* the maps page -> canonical of the tests and all others on three pages
CanonicalMaps ==
    UNION {[pages -> CanonicalTargets] : pages \in SUBSET CanonicalPages}

\* the status maps: none known, all 200, and one redirect, one 404, one
\* transport failure
StatusMaps ==
    {Empty,
     [u \in CanonicalTargets |-> 200],
     [u \in CanonicalTargets \ {PageD} |->
         IF u \in {PageA, Elsewhere} THEN 301
         ELSE IF u \in {PageB, Mail} THEN 404
         ELSE IF u = PageC THEN 0 ELSE 200]}

NoWalkFrame ==
    [page |-> <<>>, target |-> <<>>, visited |-> Empty, path |-> <<>>,
     steps |-> 0, current |-> <<>>]

ValidateInit ==
    /\ NoCrawl
    /\ pc = "range"
    /\ args \in [canonicalByPage : CanonicalMaps, statusByURL : StatusMaps]
    /\ ret = <<>>
    /\ frame = [todo |-> DOMAIN args.canonicalByPage, issues |-> <<>>,
                seen |-> {}, walk |-> NoWalkFrame]

\* Validate goes on with the frame f at position next
Goto(next, f) ==
    /\ pc' = next
    /\ frame' = f
    /\ UNCHANGED <<args, ret, opts, site, err, result, threads,
                   normalizedRoot, parsedRoot, created, state, visited, reqs,
                   fetched, last, delivered>>

\* line 118: the range over the map takes the pages in any order
RangePage ==
    /\ pc = "range"
    /\ \E page \in frame.todo :
          Goto("validatePair",
               [frame EXCEPT !.todo = @ \ {page},
                             !.walk = [NoWalkFrame EXCEPT !.page = page]])

\* lines 119-125
CallValidatePair ==
    /\ pc = "validatePair"
    /\ Goto("detectLoopOrChain",
            Report(frame,
                   validatePair(frame.walk.page,
                                args.canonicalByPage[frame.walk.page],
                                args.statusByURL),
                   PairKey(validatePair(frame.walk.page,
                                        args.canonicalByPage[frame.walk.page],
                                        args.statusByURL).issue)))

\* lines 127 and 182-190: detectLoopOrChain up to the loop
CallDetectLoopOrChain ==
    /\ pc = "detectLoopOrChain"
    /\ IF NoWalk(frame.walk.page, args.canonicalByPage)
       THEN Goto("range", frame)
       ELSE Goto("walk",
                 [frame EXCEPT !.walk =
                     [page |-> frame.walk.page,
                      target |-> args.canonicalByPage[frame.walk.page],
                      visited |-> MapPut(Empty, frame.walk.page, 0),
                      path |-> <<frame.walk.page,
                                 args.canonicalByPage[frame.walk.page]>>,
                      steps |-> 1,
                      current |-> args.canonicalByPage[frame.walk.page]]])

\* lines 127-133: detectLoopOrChain returns found
WalkReturn(w, found) ==
    Goto("range", Report([frame EXCEPT !.walk = w], found, WalkKey(found.issue)))

\* lines 214-220: one more hop
WalkOn(w, m, next) ==
    IF w.steps + 1 > Cardinality(DOMAIN m) + 1
    THEN WalkReturn([w EXCEPT !.path = Append(@, next), !.current = next,
                              !.steps = @ + 1],
                    loopIssue(w.page, w.target))
    ELSE Goto("walk",
              [frame EXCEPT !.walk =
                  [w EXCEPT !.path = Append(@, next), !.current = next,
                            !.steps = @ + 1]])

\* lines 205-212: the page is new on the path
WalkVisit(w, m, next) ==
    IF next = w.current
    THEN WalkReturn(w, chainIssue(w.page, w.target, w.steps))
    ELSE WalkOn(w, m, next)

\* lines 192-221: one turn of the loop of detectLoopOrChain
WalkStep ==
    /\ pc = "walk"
    /\ IF \/ frame.walk.current \notin DOMAIN args.canonicalByPage
          \/ args.canonicalByPage[frame.walk.current] = <<>>
       THEN WalkReturn(frame.walk,
                       chainIssue(frame.walk.page, frame.walk.target,
                                  frame.walk.steps))
       ELSE IF Seen(frame.walk.visited, frame.walk.current)
       THEN WalkReturn(frame.walk, loopIssue(frame.walk.page, frame.walk.target))
       ELSE WalkVisit([frame.walk EXCEPT !.visited =
                          MapPut(@, frame.walk.current, Len(frame.walk.path) - 1)],
                      args.canonicalByPage,
                      args.canonicalByPage[frame.walk.current])

\* lines 136-149
SortAndReturn ==
    /\ pc = "range"
    /\ frame.todo = {}
    /\ Return(SortIssues({frame.issues[i] : i \in DOMAIN frame.issues}))

ValidateNext ==
    \/ RangePage
    \/ CallValidatePair
    \/ CallDetectLoopOrChain
    \/ WalkStep
    \/ SortAndReturn

ValidateSpec == ValidateInit /\ [][ValidateNext]_vars

\* detectLoopOrChain called for one start page, in the map or not
WalkInit ==
    /\ NoCrawl
    /\ pc = "detectLoopOrChain"
    /\ args \in [canonicalByPage : CanonicalMaps, statusByURL : {Empty}]
    /\ ret = <<>>
    /\ \E start \in CanonicalPages \cup {PageD} :
          frame = [todo |-> {}, issues |-> <<>>, seen |-> {},
                   walk |-> [NoWalkFrame EXCEPT !.page = start]]

WalkNext ==
    \/ CallDetectLoopOrChain
    \/ WalkStep
    \/ SortAndReturn

\* the walk runs in the caller's goroutine up to its return
WalkSpec == WalkInit /\ [][WalkNext]_vars /\ WF_vars(WalkNext)

----------------------------------------------------------------------------
(* crawler.go: the handlers statement by statement, under the mutex mu     *)

MaxHandlers == 2

Handlers == 1..MaxHandlers

LinkA == <<"https://", "x", "/", "a">>
LinkB == <<"https://", "x", "/", "b">>
RootLink == <<"https://", "x", "/">>

\* the handler calls colly can run side by side, after the part of each
\* that touches no shared variable: OnResponse and OnError with the
\* normalized URL of the request and its status, OnHTML with the normalized
\* link, the normalized URL of the page and what shouldExclude said
HandlerCalls ==
    [handler : {"OnResponse"}, url : {LinkA, LinkB}, status : {200},
     source : {RootLink}, exclude : {FALSE}]
    \cup [handler : {"OnError"}, url : {LinkA}, status : {0, 404},
          source : {RootLink}, exclude : {FALSE}]
    \cup [handler : {"OnHTML"}, url : {LinkA, LinkB}, status : {200},
          source : {RootLink}, exclude : {FALSE}]
    \cup [handler : {"OnHTML"}, url : {LinkB}, status : {200},
          source : {RootLink}, exclude : {TRUE}]

\* the handlers with an OnError that returns at line 196, before the
\* mu.Unlock() of line 197
Statements_ReturnLocked(call) ==
    IF call.handler = "OnError"
    THEN <<"Lock", "broken", "deleteValid">>
    ELSE IF call.handler = "OnHTML"
    THEN IF call.exclude THEN <<"Lock", "excluded", "Unlock">>
         ELSE <<"Lock", "discovered", "sources", "Unlock", "Visit">>
    ELSE IF call.status >= 200 /\ call.status < 400
    THEN <<"Lock", "discovered", "valid", "deleteBroken", "lastModified",
           "Unlock">>
    ELSE <<"Lock", "discovered", "broken", "deleteValid", "Unlock">>

\* the statements of a handler from its mu.Lock() to its return:
\* lines 134-137, 140-152, 160-179 and 194-197
Statements(call) ==
    IF call.handler = "OnError"
    THEN <<"Lock", "broken", "deleteValid", "Unlock">>
    ELSE IF call.handler = "OnHTML"
    THEN IF call.exclude THEN <<"Lock", "excluded", "Unlock">>
         ELSE <<"Lock", "discovered", "sources", "Unlock", "Visit">>
    ELSE IF call.status >= 200 /\ call.status < 400
    THEN <<"Lock", "discovered", "valid", "deleteBroken", "lastModified",
           "Unlock">>
    ELSE <<"Lock", "discovered", "broken", "deleteValid", "Unlock">>

\* the statement handler t is at, "" when it has returned
Statement(t) ==
    IF frame.at[t] <= Len(Statements(args[t]))
    THEN Statements(args[t])[frame.at[t]]
    ELSE ""

\* the crawl state before the handlers: nothing known of LinkA, LinkA
\* valid, or LinkA broken
LockInit ==
    /\ opts = [RootURL |-> <<>>, MaxDepth |-> 0, Threads |-> 0,
               ExcludePatterns |-> <<>>]
    /\ site = [reachable |-> FALSE, pages |-> <<>>]
    /\ err = ""
    /\ result = NoResult
    /\ threads = 0
    /\ normalizedRoot = <<>>
    /\ parsedRoot = NoURL
    /\ created = TRUE
    /\ visited = {}
    /\ reqs = {}
    /\ fetched = Empty
    /\ last = Empty
    /\ delivered = {}
    /\ pc = "wait"
    /\ ret = <<>>
    /\ args \in [Handlers -> HandlerCalls]
    /\ frame = [mu |-> FALSE, at |-> [t \in Handlers |-> 1]]
    /\ discovered = {}
    /\ sources = Empty
    /\ lastModified = Empty
    /\ excluded = 0
    /\ \E before \in {"", "valid", "broken"} :
          /\ valid = IF before = "valid" THEN {LinkA} ELSE {}
          /\ broken = IF before = "broken" THEN MapPut(Empty, LinkA, 404)
                      ELSE Empty

\* handler t goes on to its next statement, the mutex becomes held
Step(t, held) ==
    /\ frame' = [mu |-> held, at |-> [frame.at EXCEPT ![t] = @ + 1]]
    /\ UNCHANGED <<args, ret, opts, site, pc, err, result, threads,
                   normalizedRoot, parsedRoot, created, reqs, fetched, last,
                   delivered>>

\* a step of handler t that hands colly no URL
Advance(t, held) == Step(t, held) /\ UNCHANGED visited

\* mu.Lock() that does not wait
MutexFree_Ignored(mu) == TRUE

\* mu.Lock() returns when no goroutine holds the mutex
MutexFree(mu) == ~mu

\* lines 134, 140, 160, 194: mu.Lock()
Lock(t) ==
    /\ Statement(t) = "Lock"
    /\ MutexFree(frame.mu)
    /\ Advance(t, TRUE)
    /\ UNCHANGED state

\* lines 136, 149, 161, 197: mu.Unlock()
Unlock(t) ==
    /\ Statement(t) = "Unlock"
    /\ Advance(t, FALSE)
    /\ UNCHANGED state

\* one statement between Lock and Unlock on the shared maps
Assign(stmt, call) ==
    /\ valid' = IF stmt = "valid" THEN valid \cup {call.url}
                ELSE IF stmt = "deleteValid" THEN valid \ {call.url}
                ELSE valid
    /\ broken' = IF stmt = "broken" THEN MapPut(broken, call.url, call.status)
                 ELSE IF stmt = "deleteBroken" THEN MapDelete(broken, call.url)
                 ELSE broken
    /\ discovered' = IF stmt = "discovered" THEN discovered \cup {call.url}
                     ELSE discovered
    /\ sources' = IF stmt = "sources"
                  THEN MapPut(sources, call.url,
                              MapGet(sources, call.url, {}) \cup {call.source})
                  ELSE sources
    /\ lastModified' = IF stmt = "lastModified"
                       THEN MapPut(lastModified, call.url, Now)
                       ELSE lastModified
    /\ excluded' = IF stmt = "excluded" THEN excluded + 1 ELSE excluded

\* lines 135, 141-148, 163-179, 195-196
Write(t) ==
    /\ Statement(t) \notin {"", "Lock", "Unlock", "Visit"}
    /\ Assign(Statement(t), args[t])
    /\ Advance(t, frame.mu)

\* line 151: e.Request.Visit(normalizedLink) hands the link to colly, which
\* stores it as visited and fetches it
Visit(t) ==
    /\ Statement(t) = "Visit"
    /\ visited' = visited \cup {args[t].url}
    /\ Step(t, frame.mu)
    /\ UNCHANGED state

LockNext ==
    \E t \in Handlers :
        \/ Lock(t)
        \/ Unlock(t)
        \/ Write(t)
        \/ Visit(t)

LockSpec == LockInit /\ [][LockNext]_vars

----------------------------------------------------------------------------
(* canonical.go: Extract                                                   *)

MaxTags == 2

\* (*url.URL).ResolveReference for a reference that is absolute, starts
\* with a slash, or has no path
ResolveReference(b, h) ==
    IF h.scheme # "" THEN h
    ELSE IF h.path = <<>>
    THEN [b EXCEPT !.query = IF h.query = <<>> THEN b.query ELSE h.query,
                   !.frag = h.frag]
    ELSE [h EXCEPT !.scheme = b.scheme, !.host = b.host]

\* lines 84-95: (resolved, ok)
resolveAgainstPage(pageURL, href) ==
    IF ~Parse(pageURL).ok \/ ~Parse(href).ok THEN NotNormalized
    ELSE normalizeURL(String(ResolveReference(Parse(pageURL), Parse(href))))

\* lines 59-67: the first href that is not blank, "" when there is none
RECURSIVE FirstHref(_)
FirstHref(links) ==
    IF links = <<>> THEN <<>>
    ELSE IF TrimSpace(Head(links)) # <<>> THEN TrimSpace(Head(links))
    ELSE FirstHref(Tail(links))

Info(pageURL, canonicalURL, tagCount, missing, multiple) ==
    [PageURL |-> pageURL, CanonicalURL |-> canonicalURL, TagCount |-> tagCount,
     Missing |-> missing, Multiple |-> multiple]

\* lines 55-81
extractFound(pageURL, links, found) ==
    IF found = <<>> THEN Info(pageURL, <<>>, Len(links), TRUE, Len(links) > 1)
    ELSE IF ~resolveAgainstPage(pageURL, found).ok
    THEN Info(pageURL, found, Len(links), FALSE, Len(links) > 1)
    ELSE Info(pageURL, resolveAgainstPage(pageURL, found).str, Len(links),
              FALSE, Len(links) > 1)

\* lines 42-82; doc.links are the href attributes of the link[rel=canonical]
\* elements of the document
Extract(pageURL, doc) ==
    IF doc.nil THEN Info(pageURL, <<>>, 0, TRUE, FALSE)
    ELSE IF Len(doc.links) = 0 THEN Info(pageURL, <<>>, 0, TRUE, FALSE)
    ELSE extractFound(pageURL, doc.links, FirstHref(doc.links))

\* the href values of the tests (absolute with a slash at the end, relative,
\* with a fragment, empty) and some more
CanonicalHrefs ==
    {<<>>, <<" ">>, <<"https://", "x", "/", "a", "/">>,
     <<" ", "/", "a", "/", "b", "/">>, <<"https://", "x", "/", "a", "#", "f">>,
     <<"/">>, <<"#", "f">>, <<"/", "^">>, <<"https://", "x", "/", "/">>,
     <<"mailto:", "y">>}

Documents ==
    {[nil |-> TRUE, links |-> <<>>]}
    \cup {[nil |-> FALSE, links |-> links] :
             links \in UNION {[1..n -> CanonicalHrefs] : n \in 0..MaxTags}}

ExtractInit ==
    /\ NoCrawl
    /\ pc = "Extract"
    /\ args \in [pageURL : {<<"https://", "x", "/", "p">>,
                            <<"https://", "x", "/", "^">>},
                 doc : Documents]
    /\ ret = <<>>
    /\ frame = <<>>

CallExtract ==
    /\ pc = "Extract"
    /\ Return(Extract(args.pageURL, args.doc))

ExtractNext == CallExtract

ExtractSpec == ExtractInit /\ [][ExtractNext]_vars

----------------------------------------------------------------------------
(* lastmod.go: the tiers of GetLastModified one by one                     *)

MaxBlocks == 2

\* the date strings one of the knownFormats parses
ParsedDates == {"t1", "t2", "t3", "t4"}

NoTime == [ok |-> FALSE, t |-> ""]

\* lines 160-171: (time, ok) for the string trimmed of its blanks
parseTimeTrimmed(raw) ==
    IF Len(raw) = 1 /\ raw[1] \in ParsedDates THEN [ok |-> TRUE, t |-> raw[1]]
    ELSE NoTime

parseTime(raw) == parseTimeTrimmed(TrimSpace(raw))

\* lines 106-112: obj["dateModified"], when it is there and is a string
ownDate(obj) ==
    IF obj.hasDate THEN parseTime(obj.dateModified) ELSE NoTime

\* lines 115-125: the first item of @graph that has a date
RECURSIVE graphDate(_)
graphDate(items) ==
    IF items = <<>> THEN NoTime
    ELSE IF ownDate(Head(items)).ok THEN ownDate(Head(items))
    ELSE graphDate(Tail(items))

\* lines 105-128
extractDateModified(obj) ==
    IF ownDate(obj).ok THEN ownDate(obj) ELSE graphDate(obj.graph)

\* lines 88-94: the first object of the array that has a date
RECURSIVE arrayDate(_)
arrayDate(arr) ==
    IF arr = <<>> THEN NoTime
    ELSE IF extractDateModified(Head(arr)).ok THEN extractDateModified(Head(arr))
    ELSE arrayDate(Tail(arr))

\* lines 69-97: one script block; a block that is empty or is not JSON
\* yields nothing
blockDate(block) ==
    IF block.json = "object" THEN extractDateModified(block.objs[1])
    ELSE IF block.json = "array" THEN arrayDate(block.objs)
    ELSE NoTime

\* lines 64-101
RECURSIVE fromJSONLD(_)
fromJSONLD(scripts) ==
    IF scripts = <<>> THEN NoTime
    ELSE IF blockDate(Head(scripts)).ok THEN blockDate(Head(scripts))
    ELSE fromJSONLD(Tail(scripts))

\* line 139-144: the content of the first meta tag of one selector
metaDate(content) ==
    IF content.exists THEN parseTime(content.val) ELSE NoTime

\* lines 132-148
fromMetaTags(doc) ==
    IF metaDate(doc.article).ok THEN metaDate(doc.article)
    ELSE metaDate(doc.og)

\* lines 151-157; a nil header has no Last-Modified
fromHeader(header) ==
    IF ~header.exists \/ TrimSpace(header.val) = <<>> THEN NoTime
    ELSE parseTime(header.val)

\* lines 50-58
headerOrNow(header, now) ==
    IF fromHeader(header).ok THEN fromHeader(header).t ELSE now

\* the tiers with the header before the document
LastModifiedOf_HeaderFirst(header, doc, now) ==
    IF fromHeader(header).ok THEN fromHeader(header).t
    ELSE IF doc.nil THEN now
    ELSE IF fromJSONLD(doc.scripts).ok THEN fromJSONLD(doc.scripts).t
    ELSE IF fromMetaTags(doc).ok THEN fromMetaTags(doc).t
    ELSE now

\* lines 37-59: GetLastModified
LastModifiedOf(header, doc, now) ==
    IF doc.nil THEN headerOrNow(header, now)
    ELSE IF fromJSONLD(doc.scripts).ok THEN fromJSONLD(doc.scripts).t
    ELSE IF fromMetaTags(doc).ok THEN fromMetaTags(doc).t
    ELSE headerOrNow(header, now)

Absent == [exists |-> FALSE, val |-> <<>>]
Content(val) == [exists |-> TRUE, val |-> val]

\* a JSON-LD object: with or without dateModified, with or without @graph
JSONObject(hasDate, date, graph) ==
    [hasDate |-> hasDate, dateModified |-> date, graph |-> graph]

Dateless == JSONObject(FALSE, <<>>, <<>>)
DatedObject(date) == JSONObject(TRUE, date, <<>>)

\* the script blocks of the tests: empty, not JSON, an object with and
\* without a date or with one that does not parse, an array whose second
\* object has the date, an object whose @graph has the date
ScriptBlocks ==
    {[json |-> "empty", objs |-> <<>>],
     [json |-> "invalid", objs |-> <<>>],
     [json |-> "object", objs |-> <<Dateless>>],
     [json |-> "object", objs |-> <<DatedObject(<<"t1">>)>>],
     [json |-> "object", objs |-> <<DatedObject(<<"bad">>)>>],
     [json |-> "array", objs |-> <<Dateless, DatedObject(<<" ", "t2">>)>>],
     [json |-> "object",
      objs |-> <<JSONObject(TRUE, <<"bad">>,
                            <<Dateless, DatedObject(<<"t3">>)>>)>>]}

NilDocument ==
    [nil |-> TRUE, scripts |-> <<>>, article |-> Absent, og |-> Absent]

LastModDocuments ==
    {NilDocument}
    \cup [nil : {FALSE},
          scripts : UNION {[1..n -> ScriptBlocks] : n \in 0..MaxBlocks},
          article : {Absent, Content(<<" ", "t2", " ">>), Content(<<"bad">>)},
          og : {Absent, Content(<<"t3">>), Content(<<>>)}]

LastModHeaders ==
    {Absent, Content(<<"t4">>), Content(<<"bad">>), Content(<<" ">>)}

LastModInit ==
    /\ NoCrawl
    /\ pc = "GetLastModified"
    /\ args \in [header : LastModHeaders, doc : LastModDocuments]
    /\ ret = <<>>
    /\ frame = <<>>

CallGetLastModified ==
    /\ pc = "GetLastModified"
    /\ Return(LastModifiedOf(args.header, args.doc, Now))

LastModNext == CallGetLastModified

LastModSpec == LastModInit /\ [][LastModNext]_vars

----------------------------------------------------------------------------
(* cmd/crawl.go: the crawl command and its progress spinner               *)

\* the ticks of the 200 ms ticker the model follows
MaxTicks == 2

\* frames := []rune{'|', '/', '-', '\\'}
frames == <<"|", "/", "-", "\\">>

\* one write to os.Stderr
Stderr(by, text) == [by |-> by, text |-> text]

\* what the command finds after the crawl: Crawl's error, the output that
\* cannot be written, and whether the result has broken links
Outcomes ==
    [crawlErr : BOOLEAN,
     writeErr : {"", "WriteSitemap", "WriteIssueTasks", "WriteCanonicalIssues"},
     brokenLinks : BOOLEAN]

\* lines 35-53: both channels are made and the goroutine is started
SpinnerInit ==
    /\ NoCrawl
    /\ pc = "Crawl"
    /\ args \in Outcomes
    /\ ret = ""
    /\ frame = [spinner |-> "select", i |-> 0, spinnerStop |-> FALSE,
                spinnerDone |-> FALSE, stderr |-> <<>>, inspected |-> FALSE,
                files |-> <<>>]

\* a statement of the command or of the goroutine
Run(at, f, value) ==
    /\ pc' = at
    /\ frame' = f
    /\ ret' = value
    /\ UNCHANGED <<args, opts, site, err, result, threads, normalizedRoot,
                   parsedRoot, created, state, visited, reqs, fetched, last,
                   delivered>>

\* lines 47-49: case <-ticker.C
Tick ==
    /\ frame.spinner = "select"
    /\ frame.i < MaxTicks
    /\ Run(pc,
           [frame EXCEPT
               !.stderr = Append(@, Stderr("spinner",
                                           frames[(frame.i % Len(frames)) + 1])),
               !.i = @ + 1],
           ret)

\* lines 44-46: case <-spinnerStop, ready once the channel is closed
Stop ==
    /\ frame.spinner = "select"
    /\ frame.spinnerStop
    /\ Run(pc,
           [frame EXCEPT !.stderr = Append(@, Stderr("spinner", "\r")),
                         !.spinner = "return"],
           ret)

\* lines 38, 42: the deferred ticker.Stop() and close(spinnerDone)
Exit ==
    /\ frame.spinner = "return"
    /\ Run(pc, [frame EXCEPT !.spinnerDone = TRUE, !.spinner = "exited"], ret)

\* lines 55-62: crawler.Crawl returns
CrawlReturns ==
    /\ pc = "Crawl"
    /\ Run("closeStop", frame, ret)

\* line 63: close(spinnerStop)
CloseStop ==
    /\ pc = "closeStop"
    /\ Run("waitDone", [frame EXCEPT !.spinnerStop = TRUE], ret)

\* the command going on without the <-spinnerDone of line 64
Joined_NoWait(done) == TRUE

\* a receive from spinnerDone returns once the channel is closed
Joined(done) == done

\* line 64: <-spinnerDone
WaitDoneSpinner ==
    /\ pc = "waitDone"
    /\ Joined(frame.spinnerDone)
    /\ Run("checkErr", frame, ret)

\* lines 65-67: if err != nil { return err }
CheckErr ==
    /\ pc = "checkErr"
    /\ IF args.crawlErr
       THEN Run("returned", [frame EXCEPT !.inspected = TRUE], "Crawl")
       ELSE Run("WriteSitemap", [frame EXCEPT !.inspected = TRUE], ret)

\* the statement after the write of an output
AfterWrite(output) ==
    IF output = "WriteSitemap" THEN "WriteIssueTasks"
    ELSE IF output = "WriteIssueTasks" THEN "WriteCanonicalIssues"
    ELSE "report"

\* lines 69-79: the three outputs, each returning its error
WriteOutput ==
    /\ pc \in {"WriteSitemap", "WriteIssueTasks", "WriteCanonicalIssues"}
    /\ IF args.writeErr = pc
       THEN Run("returned", frame, pc)
       ELSE Run(AfterWrite(pc), [frame EXCEPT !.files = Append(@, pc)], ret)

\* lines 81-100: the summary, and the broken links on os.Stderr
Summary ==
    /\ pc = "report"
    /\ Run("returned",
           IF args.brokenLinks
           THEN [frame EXCEPT
                    !.stderr = Append(@, Stderr("command", "Broken links found"))]
           ELSE frame,
           "")

\* the goroutine of lines 37-53
SpinnerGoroutine == Tick \/ Stop \/ Exit

\* RunE of lines 32-100
RunE == CrawlReturns \/ CloseStop \/ WaitDoneSpinner \/ CheckErr \/ WriteOutput
        \/ Summary

SpinnerNext == SpinnerGoroutine \/ RunE

\* both goroutines are scheduled, and a select with spinnerStop closed takes
\* that case in the end
SpinnerSpec ==
    /\ SpinnerInit
    /\ [][SpinnerNext]_vars
    /\ WF_vars(RunE)
    /\ WF_vars(Stop)
    /\ WF_vars(Exit)

----------------------------------------------------------------------------
(* Properties                                                              *)

Range(seq) == {seq[i] : i \in DOMAIN seq}

Normal(url) == normalizeURL(url).str

\* a status that is not 2xx/3xx, or no response at all
FetchFailed(status) == status < 200 \/ status >= 400

\* C1: in every state of a crawl no URL is both in valid and a key of
\* broken, and the ValidURLs and the keys of BrokenLinks of a Result are
\* disjoint.
C1_ValidBrokenDisjoint ==
    /\ valid \cap DOMAIN broken = {}
    /\ result.ok => Range(result.ValidURLs) \cap DOMAIN result.BrokenLinks = {}

\* a crawl is complete in which one URL was reported both as a failure and
\* as a success, and ended valid
C1_Witness ==
    /\ pc = "done"
    /\ result.ok
    /\ \E r1, r2 \in delivered :
          /\ Normal(r1.url) = Normal(r2.url)
          /\ IsErrorResponse(r1)
          /\ ~IsErrorResponse(r2)
          /\ Normal(r1.url) \in Range(result.ValidURLs)

\* C2: the latest observed status wins: a URL whose last completion was a
\* 2xx/3xx response is in valid and not in broken, any other URL that
\* completed is in broken with the status of its last completion and not
\* in valid.
C2_LatestStatusWins ==
    \A u \in DOMAIN last :
        IF last[u] >= 200 /\ last[u] < 400
        THEN u \in valid /\ u \notin DOMAIN broken
        ELSE u \in DOMAIN broken /\ broken[u] = last[u] /\ u \notin valid

\* C3: every status in broken, and in BrokenLinks, is 0 or outside
\* 200..399, and a fetch without a response is recorded with status 0.
C3_BrokenStatus ==
    /\ \A u \in DOMAIN broken : FetchFailed(broken[u])
    /\ result.ok =>
          \A u \in DOMAIN result.BrokenLinks : FetchFailed(result.BrokenLinks[u])
    /\ \A u \in DOMAIN last :
          last[u] = 0 => u \in DOMAIN broken /\ broken[u] = 0

C5_UnreachableRootIsError ==
    (pc = "done" /\ normalizeRoot(opts.RootURL).err = "" /\ ~site.reachable)
        => (err # "" /\ ~result.ok /\ DOMAIN broken = {})

\* Crawl has returned for a valid root on an unreachable host
C5_Witness ==
    /\ pc = "done"
    /\ created
    /\ ~site.reachable
    /\ err = "start crawling"

\* the root without its http:// or https:// prefix
RootBody(clean) ==
    IF clean # <<>> /\ Head(clean) \in {"http://", "https://"}
    THEN Tail(clean) ELSE clean

\* the root names no host
Hostless(body) == body = <<>> \/ Head(body) \in {"/", "?", "#"}

HasPath(body) == \E i \in 1..Len(body) : body[i] = "/"

\* C6 for the trimmed root
FailFast(clean) ==
    /\ (clean = <<>> \/ Hostless(RootBody(clean)))
          => /\ pc = "done"
             /\ err # ""
             /\ ~created
             /\ visited = {} /\ reqs = {} /\ DOMAIN fetched = {}
             /\ ~result.ok
    /\ created
          => /\ SchemeOf(clean) = ""
                   => /\ Head(normalizedRoot) = "https://"
                      /\ parsedRoot.scheme = "https"
                      /\ Tail(normalizedRoot) = clean \o <<"/">>
             /\ ~HasPath(RootBody(clean))
                   => /\ parsedRoot.path = <<"/">>
                      /\ normalizedRoot[Len(normalizedRoot)] = "/"

\* C6: a root that is empty, blank or without a hostname makes Crawl return
\* an error before any state is created or any fetch dispatched; a root
\* without http:// or https:// is taken as https://<root>, and an empty path
\* becomes "/".
C6_FailFast == pc # "start" => FailFast(TrimSpace(opts.RootURL))

\* Crawl has refused a root without a hostname
C6_Witness ==
    /\ pc = "done"
    /\ ~created
    /\ err = "invalid root url: missing host"

\* C7: at most Options.Threads fetches are in flight (5 when Threads <= 0).
C7_BoundedInFlight ==
    Cardinality(InFlight) <= (IF opts.Threads <= 0 THEN 5 ELSE opts.Threads)

\* with Threads = 0 five fetches are in flight and another request waits
C7_Witness ==
    /\ opts.Threads <= 0
    /\ Cardinality(InFlight) = 5
    /\ \E r \in reqs : r.phase = "queued"

\* a step taken once the Result is being assembled
ReadOnlyAfterWait ==
    pc \in {"assemble", "done"} => (reqs = {} /\ state' = state)

\* C8: once the Result is being assembled no request is unfinished and the
\* crawl state does not change any more.
C8_ReadOnlyAfterWait == [][ReadOnlyAfterWait]_vars

\* the assembly has begun on a state with valid, broken and referred URLs
C8_Witness ==
    /\ pc = "assemble"
    /\ valid # {}
    /\ DOMAIN broken # {}
    /\ DOMAIN sources # {}

TwoSpellings(r, u) ==
    \E i, j \in DOMAIN r.links :
        /\ TrimSpace(r.links[i]) # TrimSpace(r.links[j])
        /\ LinkOf(r.url, TrimSpace(r.links[i])).normalizedLink = u
        /\ LinkOf(r.url, TrimSpace(r.links[j])).normalizedLink = u

SourceRecorded(r, link) ==
    link.record =>
        /\ link.normalizedLink \in DOMAIN sources
        /\ Normal(r.url) \in sources[link.normalizedLink]

\* page r has a same-host, non-excluded http(s) link to u
LinksTo(r, u) ==
    \E i \in DOMAIN r.links :
        /\ LinkOf(r.url, TrimSpace(r.links[i])).record
        /\ LinkOf(r.url, TrimSpace(r.links[i])).normalizedLink = u

\* C10: at completion every page that was fetched (2xx/3xx) is a source of
\* every same-host, non-excluded http(s) URL it links to, and the sources
\* of a URL are only pages that link to it.
C10_SourcesExact ==
    pc = "done" /\ result.ok =>
        /\ \A r \in delivered :
              ~FetchFailed(r.status) =>
                  \A i \in DOMAIN r.links :
                      SourceRecorded(r, LinkOf(r.url, TrimSpace(r.links[i])))
        /\ \A u \in DOMAIN sources :
              \A p \in sources[u] :
                  \E r \in delivered : Normal(r.url) = p /\ LinksTo(r, u)

\* the parsed URL u is on another host than the root (compared without
\* case) or its scheme is not http or https
Foreign(u) ==
    \/ u.scheme \notin {"http", "https"}
    \/ ~EqualFold(u.host, parsedRoot.host)

\* an absolute href that leads to another host or to another scheme
ForeignHref(h) == h.ok /\ h.scheme # "" /\ Foreign(h)

\* the root page answers 200 and all its links are foreign
OnlyForeignLinks ==
    \A pg \in PagesAt(RequestKey(parsedRoot)) :
        /\ pg.status = 200
        /\ pg.links # <<>>
        /\ \A i \in DOMAIN pg.links : ForeignHref(Parse(TrimSpace(pg.links[i])))

\* C11: no URL on another host than the root's, and none with a scheme
\* other than http(s), is requested, fetched, valid or broken, in the crawl
\* or in the Result; a root page that links only to such URLs gives
\* ValidURLs = {root} and no BrokenLinks.
C11_ForeignNeverFetched ==
    /\ \A u \in visited \cup DOMAIN fetched \cup valid \cup DOMAIN broken :
          ~Foreign(Parse(u))
    /\ \A r \in reqs \cup delivered : r.url # <<>> => ~Foreign(Parse(r.url))
    /\ result.ok =>
          \A u \in Range(result.ValidURLs) \cup DOMAIN result.BrokenLinks :
              ~Foreign(Parse(u))
    /\ (pc = "done" /\ result.ok /\ OnlyForeignLinks) =>
          /\ result.ValidURLs = <<normalizedRoot>>
          /\ DOMAIN result.BrokenLinks = {}

\* a crawl is complete whose root page linked to another host and to a
\* mailto: address, and to nothing else
C11_Witness ==
    /\ pc = "done"
    /\ result.ok
    /\ OnlyForeignLinks
    /\ \E r \in delivered :
          /\ \E i \in DOMAIN r.links : Parse(r.links[i]).scheme = "mailto"
          /\ \E i \in DOMAIN r.links : Parse(r.links[i]).scheme = "https"
    /\ result.ValidURLs = <<normalizedRoot>>

\* the http(s) link is in discovered, whatever the handler decided about it
Discovered(link) ==
    (link.normalizedLink # <<>>
        /\ Parse(link.normalizedLink).scheme \in {"http", "https"})
    => link.normalizedLink \in discovered

\* C12: discovered is recorded before the filters: at completion every
\* http(s) link of every page the handlers were run on is in discovered,
\* also a link to another host and a link that matches an exclusion pattern,
\* and Result.Discovered counts them.
C12_DiscoveredBeforeFilter ==
    (pc = "done" /\ result.ok) =>
        /\ \A r \in delivered :
              ~IsErrorResponse(r) =>
                  \A i \in DOMAIN r.links :
                      Discovered(LinkOf(r.url, TrimSpace(r.links[i])))
        /\ result.Discovered = Cardinality(discovered)

\* C13: every URL whose fetch was attempted is in discovered: at completion
\* all of valid and every key of broken, also a root whose fetch failed,
\* so Result.Discovered is at least the number of valid plus broken URLs.
C13_AttemptedIsDiscovered ==
    (pc = "done" /\ result.ok) =>
        /\ valid \subseteq discovered
        /\ DOMAIN broken \subseteq discovered
        /\ result.Discovered >= Cardinality(valid) + Cardinality(DOMAIN broken)

\* the URL of the page n hops down the chain / -> /a -> /b -> /c
Level(n) == IF n = 0 THEN Base1 \o <<"/">> ELSE Base1 \o P(<<"a", "b", "c">>[n])

\* the levels of the chain a crawl with maxDepth = d is to fetch
LevelsWithin(d) == {Level(n) : n \in {k \in 0..3 : d = 0 \/ k <= d}}

\* C14: with the root at depth 0 no request is made deeper than maxDepth
\* (0: no bound), and on the chain / -> /a -> /b -> /c exactly the levels
\* 0..maxDepth are fetched: with maxDepth = 2 the levels 0, 1 and 2 but not
\* level 3.
C14_DepthBound ==
    /\ \A r \in reqs : opts.MaxDepth > 0 => r.depth - 1 <= opts.MaxDepth
    /\ (pc = "done" /\ result.ok /\ site.pages = ChainSite) =>
          Range(result.ValidURLs) = LevelsWithin(opts.MaxDepth)

\* the crawl of TestCrawl_Integration: newTestServer, unlimited depth, the
\* pattern /excluded
IntegrationCrawl ==
    /\ site.pages = TestSite
    /\ opts.MaxDepth = 0
    /\ opts.ExcludePatterns = ExcludeE
    /\ normalizeRoot(opts.RootURL).err = ""

\* C15: the site / -> {/about, /contact}, /about -> {/, /broken}, /broken
\* answering 404, crawled with unlimited depth, gives under every
\* interleaving ValidURLs = {/, /about, /contact}, BrokenLinks =
\* {/broken: 404} and one task for /broken with /about as its only source.
C15_EndToEnd ==
    (pc = "done" /\ IntegrationCrawl) =>
        /\ result.ok
        /\ result.ValidURLs =
              <<Base1 \o <<"/">>, Base1 \o P("a"), Base1 \o P("c")>>
        /\ result.BrokenLinks = (Base1 \o P("b") :> 404)
        /\ result.BrokenLinkTasks =
              <<[URL |-> Base1 \o P("b"), Status |-> 404,
                 Sources |-> <<Base1 \o P("a")>>]>>

\* the integration crawl is complete with two workers
C15_Witness ==
    /\ pc = "done"
    /\ IntegrationCrawl
    /\ opts.Threads = 2
    /\ result.ok
    /\ Len(result.BrokenLinkTasks) = 1
    /\ DOMAIN fetched = {Base1 \o <<"/">>, Base1 \o P("a"), Base1 \o P("b"),
                         Base1 \o P("c")}

Excluded(u) == shouldExclude(u, opts.ExcludePatterns)

\* C16: no URL that matches an exclusion pattern is in ValidURLs, in
\* BrokenLinks or the URL of a BrokenLinkTask, the root included.
C16_ResultWithoutExcluded ==
    result.ok =>
        /\ \A u \in Range(result.ValidURLs) : ~Excluded(u)
        /\ \A u \in DOMAIN result.BrokenLinks : ~Excluded(u)
        /\ \A i \in DOMAIN result.BrokenLinkTasks :
              ~Excluded(result.BrokenLinkTasks[i].URL)

\* a crawl is complete whose root matches a pattern and was recorded as
\* broken during the crawl
C16_Witness ==
    /\ pc = "done"
    /\ result.ok
    /\ Excluded(normalizedRoot)
    /\ normalizedRoot \in DOMAIN broken

\* C17: no URL for which shouldExclude is true is requested or fetched,
\* the root included.
C17_ExcludedNeverFetched ==
    /\ \A u \in visited \cup DOMAIN fetched : ~Excluded(u)
    /\ \A r \in reqs \cup delivered : r.url # <<>> => ~Excluded(r.url)

\* each string of seq is smaller than the next
Ascending(seq) == \A i \in 1..(Len(seq) - 1) : Less(seq[i], seq[i + 1])

\* the Sources of a task are the recorded referrers of its URL, in order
SourcesInOrder(task) ==
    /\ Ascending(task.Sources)
    /\ Range(task.Sources) = MapGet(sources, task.URL, {})

\* C18: the Sources of every BrokenLinkTask are ascending without
\* duplicates and are the pages recorded as referrers of the URL; a broken
\* URL without a referrer has no Sources.
C18_SourcesSorted ==
    result.ok =>
        \A i \in DOMAIN result.BrokenLinkTasks :
            SourcesInOrder(result.BrokenLinkTasks[i])

\* the page r links to u in more than one element
LinksTwice(r, u) ==
    \E i, j \in DOMAIN r.links :
        /\ i # j
        /\ LinkOf(r.url, TrimSpace(r.links[i])).normalizedLink = u
        /\ LinkOf(r.url, TrimSpace(r.links[j])).normalizedLink = u

\* a Result has a task with two Sources, one of them a page that links to
\* the broken URL twice
C18_Witness ==
    /\ pc = "done"
    /\ result.ok
    /\ \E i \in DOMAIN result.BrokenLinkTasks :
          /\ Len(result.BrokenLinkTasks[i].Sources) = 2
          /\ \E r \in delivered :
                /\ Normal(r.url) \in Range(result.BrokenLinkTasks[i].Sources)
                /\ LinksTwice(r, result.BrokenLinkTasks[i].URL)

\* C19: ValidURLs is strictly ascending, BrokenLinkTasks is ascending by
\* URL, and there is exactly one task for each entry of BrokenLinks, with
\* its URL and status, and no other task.
C19_ResultSorted ==
    result.ok =>
        /\ Ascending(result.ValidURLs)
        /\ Ascending([i \in DOMAIN result.BrokenLinkTasks |->
                          result.BrokenLinkTasks[i].URL])
        /\ {result.BrokenLinkTasks[i].URL : i \in DOMAIN result.BrokenLinkTasks}
              = DOMAIN result.BrokenLinks
        /\ \A i \in DOMAIN result.BrokenLinkTasks :
              result.BrokenLinkTasks[i].Status
                  = result.BrokenLinks[result.BrokenLinkTasks[i].URL]

\* a Result with two ValidURLs and two tasks
C19_Witness ==
    /\ pc = "done"
    /\ result.ok
    /\ Len(result.ValidURLs) >= 2
    /\ Len(result.BrokenLinkTasks) >= 2

\* the server answers every URL in one way, without redirect
FixedSite ==
    \A key \in DOMAIN site.pages :
        \A pg \in site.pages[key] : site.pages[key] = {pg} /\ pg.path = key

\* the answer of a fixed site to a request of url
Answer(url) == CHOOSE resp \in Responses(url) : TRUE

\* the links of an answered page that the handler records
Recorded(resp) ==
    IF IsErrorResponse(resp) THEN {}
    ELSE {link \in {LinkOf(resp.url, TrimSpace(resp.links[i])) :
                        i \in DOMAIN resp.links} : link.record}

\* the URLs the page at url asks the collector to visit
Targets(url) ==
    {link.normalizedLink : link \in
        {l \in Recorded(Answer(url)) : DomainAllowed(l.normalizedLink)}}

\* the pages one hop below the frontier, which is at the collector's depth
NextLevel(frontier, seen, depth) ==
    IF DepthExceeded(depth + 1) THEN {}
    ELSE UNION {Targets(u) : u \in frontier} \ (seen \cup frontier)

\* the URLs a crawl fetches that takes the pages level by level
RECURSIVE Sweep(_, _, _)
Sweep(frontier, seen, depth) ==
    IF frontier = {} THEN seen
    ELSE Sweep(NextLevel(frontier, seen, depth), seen \cup frontier, depth + 1)

LevelOrder == Sweep({normalizedRoot}, {}, 1)

\* what the level-by-level crawl reports: the valid URLs, the broken ones
\* and the referrers of a URL
ValidOf(F) == {u \in F : ~IsErrorResponse(Answer(u)) /\ ~Excluded(u)}

BrokenOf(F) ==
    [u \in {v \in F : IsErrorResponse(Answer(v)) /\ ~Excluded(v)}
        |-> Answer(u).status]

SourcesOf(F, u) ==
    {Normal(p) : p \in {q \in F : \E link \in Recorded(Answer(q)) :
                                     link.normalizedLink = u}}

SameOutcome(F) ==
    /\ result.ValidURLs = SortStrings(ValidOf(F))
    /\ result.BrokenLinks = BrokenOf(F)
    /\ \A i \in DOMAIN result.BrokenLinkTasks :
          result.BrokenLinkTasks[i].Sources
              = SortStrings(SourcesOf(F, result.BrokenLinkTasks[i].URL))

\* C20: the outcome does not depend on the order of the completions: on a
\* server with one fixed answer per URL every interleaving ends in the
\* Result of the crawl that takes the pages level by level, also with
\* maxDepth > 0 and a page that is reachable by paths of different lengths.
C20_OrderIndependent ==
    (pc = "done" /\ result.ok /\ FixedSite) => SameOutcome(LevelOrder)

\* C22: normalization is idempotent: a URL that normalizes without error
\* normalizes to a string that normalizes to itself, also when its path is
\* only slashes or ends in several slashes.
C22_Idempotent ==
    (pc = "returned" /\ ret.ok) =>
        /\ normalizeURL(ret.str).ok
        /\ normalizeURL(ret.str).str = ret.str

\* the last token of a non-empty string
Last(s) == s[Len(s)]

\* C23 for the input URL in and the normalized URL out, both parsed
NormalForm(in, out) ==
    /\ out.ok
    /\ out.frag = <<>>
    /\ out.path # <<>>
    /\ in.path = <<>> => out.path = <<"/">>
    /\ out.path # <<"/">> => Last(out.path) # "/"
    /\ out.query = in.query

\* C23: the normalized form of a URL that parses has no fragment, a
\* non-empty path ("/" for an empty one), no slash at the end of a path
\* other than "/", and the query of the input; so x/a/ and x/a normalize
\* alike, x to x/ and x/a?q#f to x/a?q.
C23_NormalForm ==
    /\ (pc = "returned" /\ ret.ok) => NormalForm(Parse(args), Parse(ret.str))
    /\ (pc = "returned" /\ args = <<"https://", "x", "/", "a", "/">>)
          => ret.str = normalizeURL(<<"https://", "x", "/", "a">>).str
    /\ (pc = "returned" /\ args = <<"https://", "x">>)
          => ret.str = <<"https://", "x", "/">>
    /\ (pc = "returned" /\ args = <<"https://", "x", "/", "a", "?", "q", "#", "f">>)
          => ret.str = <<"https://", "x", "/", "a", "?", "q">>

\* a glob match that knows nothing of slashes: '*' is any run of
\* characters, '?' is any one character
RECURSIVE Glob(_, _)
Glob(pattern, name) ==
    IF pattern = <<>> THEN name = <<>>
    ELSE IF Head(pattern) = "*"
    THEN \/ Glob(Tail(pattern), name)
         \/ name # <<>> /\ Glob(pattern, Tail(name))
    ELSE IF Head(pattern) = "?"
    THEN name # <<>> /\ Glob(Tail(pattern), Tail(name))
    ELSE name # <<>> /\ Head(name) = Head(pattern)
         /\ Glob(Tail(pattern), Tail(name))

\* the last element of a path (the path itself when it is only slashes)
FinalSegment(path) ==
    IF TrimRight(path, "/") = <<>> THEN path
    ELSE After(TrimRight(path, "/"), LastIndexOf(TrimRight(path, "/"), "/"))

\* the pattern matches, under the matcher M, one of the projections of the
\* link: the whole string, the path, the final segment, or path?query with
\* or without the slash in front
MatchesProjection(M(_, _), pattern, link, u) ==
    \/ M(pattern, link)
    \/ /\ u.ok
       /\ \/ M(pattern, u.path)
          \/ M(pattern, FinalSegment(u.path))
          \/ /\ u.query # <<>>
             /\ \/ M(pattern, u.path \o <<"?">> \o u.query)
                \/ M(pattern, Tail(u.path \o <<"?">> \o u.query))

\* some pattern that is not blank matches a projection of the link
ExcludedUnder(M(_, _), link, patterns) ==
    \E i \in DOMAIN patterns :
        /\ TrimSpace(patterns[i]) # <<>>
        /\ MatchesProjection(M, TrimSpace(patterns[i]), link, Parse(link))

\* C24: in a pattern '*' matches any run of characters, slashes included,
\* and '?' any one character, so shouldExclude is the slash-blind glob on
\* the projections, and /admin/* excludes every URL below /admin/ at any
\* depth.
C24_StarCrossesSlash ==
    pc = "returned" =>
        /\ ret = ExcludedUnder(Glob, args.link, args.patterns)
        /\ (args.patterns = <<<<"/", "a", "/", "*">>>>
               /\ Len(Parse(args.link).path) > 2
               /\ SubSeq(Parse(args.link).path, 1, 3) = <<"/", "a", "/">>)
              => ret = TRUE

\* the call shouldExclude(link, <<pattern>>)
Called(link, pattern) ==
    pc = "returned" /\ args = [link |-> link, patterns |-> <<pattern>>]

\* C25: shouldExclude is true exactly when a pattern that is not blank
\* matches the whole URL, its path, its final segment, or its path?query
\* with or without the slash in front; so *.pdf excludes x/f.pdf, /admin/*
\* excludes x/admin/y but not x/y, *?lang=rs excludes x/page?lang=rs, and
\* blank patterns and the empty list exclude nothing.
C25_ExcludedIffProjection ==
    /\ pc = "returned" => ret = ExcludedUnder(Match, args.link, args.patterns)
    /\ Called(<<"https://", "x", "/", "f", ".", "p", "d", "f">>,
              <<"*", ".", "p", "d", "f">>) => ret = TRUE
    /\ Called(<<"https://", "x", "/", "a", "/", "y">>, <<"/", "a", "/", "*">>)
          => ret = TRUE
    /\ Called(<<"https://", "x", "/", "y">>, <<"/", "a", "/", "*">>)
          => ret = FALSE
    /\ Called(<<"https://", "x", "/", "p", "?", "l">>, <<"*", "?", "l">>)
          => ret = TRUE
    /\ (pc = "returned"
           /\ \A i \in DOMAIN args.patterns : TrimSpace(args.patterns[i]) = <<>>)
          => ret = FALSE

\* shouldExclude has returned true for a link in a directory that only the
\* file name test catches, with a blank pattern in front
C25_Witness ==
    /\ pc = "returned"
    /\ args = [link |-> <<"https://", "x", "/", "a", "/", "f", ".", "p", "d", "f">>,
               patterns |-> <<<<" ", " ">>, <<"*", ".", "p", "d", "f">>>>]
    /\ ret = TRUE

\* Validate has returned for the maps m and st
Validated(m, st) ==
    pc = "returned" /\ args = [canonicalByPage |-> m, statusByURL |-> st]

\* the types of the per-page issues reported for page
PairTypes(page) ==
    {ret[i].Type : i \in {j \in DOMAIN ret :
        ret[j].PageURL = page /\ ret[j].Type # IssueLoopOrChain}}

\* the loop_or_chain issues reported for page
WalkIssues(page) ==
    {ret[i] : i \in {j \in DOMAIN ret :
        ret[j].PageURL = page /\ ret[j].Type = IssueLoopOrChain}}

\* the first per-page check that matches a target that parses
FirstMatch(page, target, st) ==
    IF Parse(target).scheme \notin {"http", "https"}
    THEN {IssueNonHTTPScheme}
    ELSE IF ~EqualFold(Parse(page).host, Parse(target).host)
    THEN {IssueCrossDomain}
    ELSE IF target \in DOMAIN st /\ st[target] \in 300..399
    THEN {IssueTargetRedirect}
    ELSE IF target \in DOMAIN st /\ (st[target] = 0 \/ st[target] >= 400)
    THEN {IssueTargetBroken}
    ELSE {}

\* C26: for each page the per-page checks are applied in the order
\* non_http_scheme, cross_domain, target_redirect, target_broken and only
\* the first that matches is reported, with the page and its target; a
\* target whose status is unknown or 200..299 (and a target that does not
\* parse) yields no per-page issue.
C26_FirstMatchOnly ==
    pc = "returned" =>
        \A page \in DOMAIN args.canonicalByPage :
            /\ PairTypes(page) =
                 IF Parse(args.canonicalByPage[page]).ok
                 THEN FirstMatch(page, args.canonicalByPage[page],
                                 args.statusByURL)
                 ELSE {}
            /\ \A i \in DOMAIN ret :
                  ret[i].PageURL = page
                     => ret[i].CanonicalURL = args.canonicalByPage[page]

\* Validate has returned cross_domain for a foreign target that redirects
\* and non_http_scheme for a mailto target that is broken
C26_Witness ==
    /\ pc = "returned"
    /\ PageA \in DOMAIN args.canonicalByPage
    /\ PageB \in DOMAIN args.canonicalByPage
    /\ args.canonicalByPage[PageA] = Elsewhere
    /\ args.canonicalByPage[PageB] = Mail
    /\ Elsewhere \in DOMAIN args.statusByURL
    /\ args.statusByURL[Elsewhere] = 301
    /\ args.statusByURL[Mail] = 404
    /\ PairTypes(PageA) = {IssueCrossDomain}
    /\ PairTypes(PageB) = {IssueNonHTTPScheme}

\* C27: a page whose canonical is its own URL receives no issue from
\* Validate, whatever the maps; Validate({p:p}, {p:200}) is empty.
C27_SelfCanonicalNeverFlagged ==
    /\ pc = "returned" =>
          \A page \in DOMAIN args.canonicalByPage :
              args.canonicalByPage[page] = page =>
                  \A i \in DOMAIN ret : ret[i].PageURL # page
    /\ \A st \in StatusMaps :
          (Validated(MapPut(Empty, PageA, PageA), st)
             /\ PageA \in DOMAIN st /\ st[PageA] = 200) => ret = <<>>

\* a page with no canonical entry, an empty canonical or its own URL as
\* canonical
Terminal(m, u) ==
    u \notin DOMAIN m \/ m[u] = <<>> \/ m[u] = u

\* the number of hops from u to the first terminal page, -1 when the chain
\* reaches none within fuel hops
RECURSIVE Hops(_, _, _)
Hops(m, u, fuel) ==
    IF Terminal(m, u) THEN 0
    ELSE IF fuel = 0 THEN -1
    ELSE IF Hops(m, m[u], fuel - 1) < 0 THEN -1
    ELSE Hops(m, m[u], fuel - 1) + 1

HopsFrom(m, u) == Hops(m, u, Cardinality(DOMAIN m) + 1)

\* C28: a page whose chain takes two or more hops to a terminal page gets
\* a loop_or_chain issue with its direct target as CanonicalURL; a page
\* whose chain ends after one hop gets no loop_or_chain issue.
C28_ChainDetected ==
    pc = "returned" =>
        \A a \in DOMAIN args.canonicalByPage :
            /\ HopsFrom(args.canonicalByPage, a) >= 2 =>
                  /\ WalkIssues(a) # {}
                  /\ \A i \in WalkIssues(a) :
                        i.CanonicalURL = args.canonicalByPage[a]
            /\ HopsFrom(args.canonicalByPage, a) = 1 => WalkIssues(a) = {}

\* Validate has returned for a -> b -> c with c self-canonical: a chain for
\* a, nothing for b
C28_Witness ==
    /\ pc = "returned"
    /\ args.canonicalByPage =
          [u \in CanonicalPages |-> IF u = PageA THEN PageB ELSE PageC]
    /\ WalkIssues(PageA) # {}
    /\ WalkIssues(PageB) = {}

\* C29: a page whose canonical is not itself and whose chain comes back to
\* a page already on the path gets a loop_or_chain issue, whether or not the
\* page lies on the cycle; Validate({a:b, b:a}, {a:200, b:200}) has one.
C29_LoopDetected ==
    /\ pc = "returned" =>
          \A p \in DOMAIN args.canonicalByPage :
              (args.canonicalByPage[p] # p
                 /\ HopsFrom(args.canonicalByPage, p) < 0)
                => WalkIssues(p) # {}
    /\ \A st \in StatusMaps :
          (Validated([u \in {PageA, PageB} |->
                         IF u = PageA THEN PageB ELSE PageA], st)
             /\ PageA \in DOMAIN st /\ st[PageA] = 200)
            => WalkIssues(PageA) # {}

\* Validate has returned for a -> b -> c -> b: a loop for a, which is not
\* on the cycle
C29_Witness ==
    /\ pc = "returned"
    /\ args.canonicalByPage =
          [u \in CanonicalPages |->
              IF u = PageA THEN PageB ELSE IF u = PageB THEN PageC ELSE PageB]
    /\ \E i \in WalkIssues(PageA) : i.Detail = "canonical loop detected"

\* the walk has made no more steps than the map has entries plus one, and
\* every page of the visited map is an entry of the map
WalkBounded ==
    /\ frame.walk.steps <= Cardinality(DOMAIN args.canonicalByPage) + 1
    /\ DOMAIN frame.walk.visited \subseteq DOMAIN args.canonicalByPage

\* C30: on every map the walk makes at most (entries + 1) steps from any
\* start page, and Validate returns.
C30_WalkTerminates ==
    [](WalkBounded) /\ <>(pc = "returned")

\* a walk on the cyclic map a -> b -> c -> b has made three steps
C30_Witness ==
    /\ pc = "walk"
    /\ args.canonicalByPage =
          [u \in CanonicalPages |->
              IF u = PageA THEN PageB ELSE IF u = PageB THEN PageC ELSE PageB]
    /\ frame.walk.page = PageA
    /\ frame.walk.steps = 3

\* the statements of kind stmt that handler t has run
Ran(t, stmt) ==
    {i \in 1..(frame.at[t] - 1) :
        i <= Len(Statements(args[t])) /\ Statements(args[t])[i] = stmt}

\* handler t is between its mu.Lock() and its mu.Unlock()
Holding(t) ==
    Cardinality(Ran(t, "Lock")) > Cardinality(Ran(t, "Unlock"))

\* the mutex is held by exactly the one handler that is between Lock and
\* Unlock, and a handler that finds the mutex free finds no URL both valid
\* and broken
MutexGuards ==
    /\ Cardinality({t \in Handlers : Holding(t)}) <= 1
    /\ frame.mu <=> \E t \in Handlers : Holding(t)
    /\ ~frame.mu => valid \cap DOMAIN broken = {}

\* a step that changes one of the six shared variables is taken with the
\* mutex held before and after it
WriteUnderMutex ==
    state' # state => frame.mu /\ frame'.mu

\* C21: valid, broken, discovered, sources, lastModified and excluded are
\* changed only while the one mutex is held, one handler holds it at a
\* time, and a URL is in valid and in broken at once only inside the
\* critical section of the handler that moves it.
C21_MutexGuardsState ==
    [](MutexGuards) /\ [][WriteUnderMutex]_vars

\* a handler has put LinkA into one set and has not yet taken it from the
\* other, while another handler waits at its mu.Lock()
C21_Witness ==
    /\ pc = "wait"
    /\ frame.mu
    /\ LinkA \in valid
    /\ LinkA \in DOMAIN broken
    /\ \E t \in Handlers : Holding(t) /\ args[t].handler = "OnResponse"
    /\ \E t \in Handlers : frame.at[t] = 1 /\ args[t].handler = "OnError"

\* the four fields of an issue as ranks and strings, in the order of the
\* sort key
SortKey(i) ==
    <<i.PageURL, <<i.Type>>, i.CanonicalURL, <<i.Detail>>>>

\* one field of the key is smaller than the same field of another issue
FieldBefore(k, a, b) ==
    IF k = 2 THEN IndexOf(TypeOrder, a[1]) < IndexOf(TypeOrder, b[1])
    ELSE IF k = 4 THEN IndexOf(DetailOrder, a[1]) < IndexOf(DetailOrder, b[1])
    ELSE Less(a, b)

\* i comes strictly before j: the first field in which they differ is
\* smaller in i
KeyBefore(i, j) ==
    \E k \in 1..4 :
        /\ \A h \in 1..(k - 1) : SortKey(i)[h] = SortKey(j)[h]
        /\ SortKey(i)[k] # SortKey(j)[k]
        /\ FieldBefore(k, SortKey(i)[k], SortKey(j)[k])

\* the issues Validate owes for the maps, whatever the order of the pages:
\* the per-page issue of each page and the issue of its walk
OwedPair(m, st) ==
    {validatePair(p, m[p], st).issue :
        p \in {q \in DOMAIN m : validatePair(q, m[q], st).ok}}

OwedWalk(m) ==
    {Issue(p, m[p], IssueLoopOrChain,
           IF HopsFrom(m, p) < 0 THEN "canonical loop detected"
           ELSE "canonical chain detected") :
        p \in {q \in DOMAIN m : HopsFrom(m, q) < 0 \/ HopsFrom(m, q) >= 2}}

\* C31: the list Validate returns is strictly ascending in (PageURL, Type,
\* CanonicalURL, Detail), so sorted and without two equal issues, and it is
\* the same list whatever the order in which the map was iterated: its
\* issues are those owed for the maps, each once.
C31_SortedAndOrderFree ==
    pc = "returned" =>
        /\ \A i \in DOMAIN ret : \A j \in DOMAIN ret :
              i < j => KeyBefore(ret[i], ret[j])
        /\ Range(ret) = OwedPair(args.canonicalByPage, args.statusByURL)
                           \cup OwedWalk(args.canonicalByPage)
        /\ Len(ret) = Cardinality(Range(ret))

\* Validate has returned four issues that were appended in an order other
\* than the sorted one, two of them for one page
C31_Witness ==
    /\ pc = "returned"
    /\ Len(ret) >= 4
    /\ ret # frame.issues
    /\ \E i \in DOMAIN ret : \E j \in DOMAIN ret :
          i < j /\ ret[i].PageURL = ret[j].PageURL
    /\ \E i \in DOMAIN ret : \E j \in DOMAIN ret :
          /\ i < j
          /\ IndexOf(TypeOrder, ret[j].Type) < IndexOf(TypeOrder, ret[i].Type)

\* the per-page issues reported for page
PairIssues(page) ==
    {ret[i] : i \in {j \in DOMAIN ret :
        ret[j].PageURL = page /\ ret[j].Type # IssueLoopOrChain}}

\* the chain of page has two or more hops or runs into a cycle
WalkOwed(m, page) ==
    HopsFrom(m, page) < 0 \/ HopsFrom(m, page) >= 2

\* C35: a page gets at most one per-page issue and at most one
\* loop_or_chain issue, and the two checks do not depend on each other: a
\* page whose per-page check matches still gets the loop_or_chain issue its
\* chain owes, and the other way round.
C35_PairAndWalkIndependent ==
    pc = "returned" =>
        \A page \in DOMAIN args.canonicalByPage :
            /\ Cardinality(PairIssues(page)) <= 1
            /\ Cardinality(WalkIssues(page)) <= 1
            /\ WalkOwed(args.canonicalByPage, page) <=> WalkIssues(page) # {}
            /\ validatePair(page, args.canonicalByPage[page],
                            args.statusByURL).ok <=> PairIssues(page) # {}

\* Validate has returned target_broken and loop_or_chain for page a, whose
\* target b is broken and whose chain a -> b -> c has two hops
C35_Witness ==
    /\ pc = "returned"
    /\ args.canonicalByPage =
          [u \in CanonicalPages |-> IF u = PageA THEN PageB ELSE PageC]
    /\ PageB \in DOMAIN args.statusByURL
    /\ args.statusByURL[PageB] = 404
    /\ \E i \in PairIssues(PageA) : i.Type = IssueTargetBroken
    /\ WalkIssues(PageA) # {}

\* the canonical tag of the document whose href counts: the first that is
\* not blank, 0 when there is none
WinningTag(links) ==
    IF \E k \in DOMAIN links : TrimSpace(links[k]) # <<>>
    THEN CHOOSE k \in DOMAIN links :
            /\ TrimSpace(links[k]) # <<>>
            /\ \A j \in 1..(k - 1) : TrimSpace(links[j]) = <<>>
    ELSE 0

\* out is the normalized form of the URL target: the same scheme, host and
\* query, no fragment, the path without the slashes at its end and "/" for
\* the root
NormalizedFrom(target, out) ==
    /\ out.scheme = target.scheme
    /\ out.host = target.host
    /\ out.frag = <<>>
    /\ target.opaque = <<>> =>
          /\ NormalForm(target, out)
          /\ TrimRight(out.path, "/") = TrimRight(target.path, "/")

\* Extract has returned for a page that parses and the document of links
Extracted(links) ==
    /\ pc = "returned"
    /\ args.pageURL = <<"https://", "x", "/", "p">>
    /\ args.doc = [nil |-> FALSE, links |-> links]

\* C32: TagCount is the number of canonical tags, those with an empty href
\* included; Multiple iff TagCount >= 2; Missing iff the document is nil or
\* no tag has a non-empty href, and then CanonicalURL is empty; otherwise
\* CanonicalURL is the first non-empty href, resolved against the page and
\* normalized (when page and href parse).
C32_ExtractInfo ==
    /\ pc = "returned" =>
          /\ ret.PageURL = args.pageURL
          /\ ret.TagCount = IF args.doc.nil THEN 0 ELSE Len(args.doc.links)
          /\ ret.Multiple <=> ret.TagCount >= 2
          /\ ret.Missing <=> (args.doc.nil \/ WinningTag(args.doc.links) = 0)
          /\ ret.Missing => ret.CanonicalURL = <<>>
          /\ (/\ ~ret.Missing
              /\ Parse(args.pageURL).ok
              /\ Parse(args.doc.links[WinningTag(args.doc.links)]).ok)
                => NormalizedFrom(
                      ResolveReference(
                          Parse(args.pageURL),
                          Parse(TrimSpace(
                              args.doc.links[WinningTag(args.doc.links)]))),
                      Parse(ret.CanonicalURL))
    /\ Extracted(<<<<"https://", "x", "/", "a", "/">>>>)
          => ret.CanonicalURL = <<"https://", "x", "/", "a">>
    /\ Extracted(<<<<" ", "/", "a", "/", "b", "/">>>>)
          => ret.CanonicalURL = <<"https://", "x", "/", "a", "/", "b">>
    /\ Extracted(<<<<"https://", "x", "/", "a", "#", "f">>, <<"/">>>>)
          => ret.CanonicalURL = <<"https://", "x", "/", "a">>
    /\ Extracted(<<<<>>>>) => ret.Missing /\ ret.TagCount = 1

\* the date a string stands for, "" when it stands for none
DateIn(val) ==
    IF \E d \in ParsedDates : TrimSpace(val) = <<d>>
    THEN CHOOSE d \in ParsedDates : TrimSpace(val) = <<d>>
    ELSE ""

\* the dates the dateModified keys of the objects of a block stand for, the
\* objects of @graph included
ObjectDates(objs) ==
    {DateIn(objs[i].dateModified) : i \in {j \in DOMAIN objs : objs[j].hasDate}}
    \cup UNION {{DateIn(objs[i].graph[k].dateModified) :
                    k \in {h \in DOMAIN objs[i].graph : objs[i].graph[h].hasDate}} :
                i \in DOMAIN objs}

\* what each tier yields: the dates that parse
JSONLDTier(doc) ==
    IF doc.nil THEN {}
    ELSE UNION {ObjectDates(doc.scripts[i].objs) : i \in DOMAIN doc.scripts}
            \ {""}

MetaTier(doc, content) ==
    IF doc.nil \/ ~content.exists THEN {} ELSE {DateIn(content.val)} \ {""}

HeaderTier(header) ==
    IF header.exists THEN {DateIn(header.val)} \ {""} ELSE {}

\* the first tier of the five that yields a date
FirstTier(header, doc) ==
    IF JSONLDTier(doc) # {} THEN JSONLDTier(doc)
    ELSE IF MetaTier(doc, doc.article) # {} THEN MetaTier(doc, doc.article)
    ELSE IF MetaTier(doc, doc.og) # {} THEN MetaTier(doc, doc.og)
    ELSE IF HeaderTier(header) # {} THEN HeaderTier(header)
    ELSE {Now}

\* C33: GetLastModified always returns a time, that of the first tier that
\* yields a date that parses: JSON-LD dateModified, meta
\* article:modified_time, meta og:updated_time, the Last-Modified header,
\* else now; a tier that is absent, malformed or does not parse is passed
\* over, and a nil document goes straight to the header.
C33_FirstTierWins ==
    pc = "returned" =>
        /\ ret \in ParsedDates \cup {Now}
        /\ ret \in FirstTier(args.header, args.doc)
        /\ args.doc.nil => ret \in HeaderTier(args.header) \cup {Now}

\* GetLastModified has returned the og:updated_time of a document whose
\* JSON-LD block is not JSON and whose article:modified_time does not
\* parse, with a header that parses
C33_Witness ==
    /\ pc = "returned"
    /\ ~args.doc.nil
    /\ args.doc.scripts = <<[json |-> "invalid", objs |-> <<>>]>>
    /\ args.doc.article = Content(<<"bad">>)
    /\ args.doc.og = Content(<<"t3">>)
    /\ args.header = Content(<<"t4">>)
    /\ ret = "t3"

\* C34: the Result of a crawl carries CanonicalIssues,
\* MissingCanonicalPages and MultipleCanonicalPages, the outcome of the
\* canonical extraction on every fetch that succeeded and of one Validate
\* after the crawl.
C34_CanonicalInResult ==
    result.ok =>
        {"CanonicalIssues", "MissingCanonicalPages", "MultipleCanonicalPages"}
            \subseteq DOMAIN result

\* C37: Result.LastModified has an entry for exactly the URLs of ValidURLs:
\* one for each of them, none for a key of BrokenLinks and none for a URL
\* that matches an exclusion pattern.
C37_LastModifiedOfValidOnly ==
    result.ok =>
        /\ DOMAIN result.LastModified = Range(result.ValidURLs)
        /\ DOMAIN result.LastModified \cap DOMAIN result.BrokenLinks = {}
        /\ \A u \in DOMAIN result.LastModified : ~Excluded(u)

\* the requests that wait for a slot or are being fetched
Frontier == {r \in reqs : r.phase \in {"queued", "inflight"}}

\* the href of the link the OnHTML handler of r is at, parsed
HrefOf(r) ==
    Parse(AbsoluteURL(r.resp.url, TrimSpace(r.resp.links[r.next])))

\* the link of r is on the host of the root, is http(s) and matches a
\* pattern
ExcludedLink(r) ==
    /\ HrefOf(r).ok
    /\ ~Foreign(HrefOf(r))
    /\ Excluded(Normal(String(HrefOf(r))))

\* one step of the crawl: the handling of an excluded link adds one to the
\* counter and leaves the maps and the frontier alone, and nothing else
\* changes the counter
ExcludedStep ==
    /\ \A r \in reqs :
          OnHTML(r) =>
             IF ExcludedLink(r)
             THEN /\ excluded' = excluded + 1
                  /\ UNCHANGED <<discovered, sources, valid, broken,
                                 lastModified, visited, fetched>>
                  /\ Frontier' = Frontier
             ELSE excluded' = excluded
    /\ (\A r \in reqs : ~OnHTML(r)) => excluded' = excluded

C36_CrawlTerminates ==
    /\ <>(pc = "done")
    /\ [](pc # "done" => CanStep)
    /\ [](result.ok => pc = "done" /\ reqs = {})

\* a crawl of unbounded depth has returned a Result for the site whose
\* pages / and /a link to each other
C36_Witness ==
    /\ pc = "done"
    /\ result.ok
    /\ opts.MaxDepth = 0
    /\ site.pages = TestSite
    /\ <<"http://", "x", "/", "a">> \in valid
    /\ FetchCount(<<"http://", "x", "/">>) = 1

\* handler t has returned
Returned(t) == Statement(t) = ""

\* no handler is at a second mu.Lock(), at Request.Visit or past its return
\* with the mutex held, and a handler that has not returned leaves some
\* handler a step to take
LockReleased ==
    /\ \A t \in Handlers :
          /\ Statement(t) \in {"Lock", "Visit", ""} => ~Holding(t)
          /\ Cardinality(Ran(t, "Lock")) <= 1
    /\ (\A t \in Handlers : Returned(t)) => ~frame.mu
    /\ (\E t \in Handlers : ~Returned(t)) => ENABLED LockNext

\* C39: every path through OnHTML, OnResponse and OnError unlocks the
\* mutex before the handler returns, no handler locks it twice, it is not
\* held at Request.Visit, and the handlers never all wait for it.
C39_LockCannotDeadlock ==
    LockReleased

\* an OnHTML handler is at its Request.Visit with the mutex released while
\* another handler is inside its critical section
C39_Witness ==
    /\ pc = "wait"
    /\ \E t \in Handlers :
          /\ args[t].handler = "OnHTML"
          /\ Statement(t) = "Visit"
          /\ ~Holding(t)
    /\ \E t \in Handlers : args[t].handler = "OnResponse" /\ Holding(t)

\* what the goroutine of the spinner wrote to os.Stderr
SpinnerWrites(f) == SelectSeq(f.stderr, LAMBDA w : w.by = "spinner")

\* the spinner was told to stop, wrote its last "\r" and closed spinnerDone
SpinnerOver ==
    /\ frame.spinnerStop
    /\ frame.spinnerDone
    /\ frame.spinner = "exited"
    /\ SpinnerWrites(frame) # <<>>
    /\ SpinnerWrites(frame)[Len(SpinnerWrites(frame))].text = "\r"

\* the command has looked at Crawl's error, written an output or returned
PastJoin ==
    frame.inspected \/ frame.files # <<>> \/ pc = "returned"

\* a step taken after the command looked at Crawl's error leaves what the
\* spinner wrote as it was
SpinnerSilent ==
    PastJoin => SpinnerWrites(frame') = SpinnerWrites(frame)

\* C40: the spinner is told to stop and has closed spinnerDone before the
\* command looks at Crawl's error or writes an output, with and without an
\* error; it writes nothing afterwards, and the command does not wait for
\* it forever.
C40_SpinnerJoined ==
    /\ [](PastJoin \/ pc = "checkErr" => SpinnerOver)
    /\ [][SpinnerSilent]_vars
    /\ (pc = "waitDone" ~> pc = "checkErr")
    /\ <>(pc = "returned")

\* the command has returned Crawl's error after the spinner drew two frames
\* and stopped
C40_Witness ==
    /\ pc = "returned"
    /\ ret = "Crawl"
    /\ args.crawlErr
    /\ frame.i = MaxTicks
    /\ frame.spinnerDone
    /\ frame.files = <<>>

=============================================================================
